---- MODULE Spec2Model ----
(***************************************************************************)
(* Model of the Maple desktop back end: the embedded MCP task protocol     *)
(* server (apps/desktop/src-tauri/src/mcp_http.rs).                        *)
(*                                                                         *)
(* Conventions                                                             *)
(*  - A Rust String on which the code does character work (project names,  *)
(*    directories, queries, tags, icons, labels) is a sequence of          *)
(*    characters; a character is a one-character TLA+ string.  A CJK       *)
(*    character is written as a token such as "cjk:yan" (the module is     *)
(*    kept ASCII).                                                         *)
(*  - A Rust String that the code only stores and compares for equality    *)
(*    (task id, title, status, report content, summary) is a TLA+ string.  *)
(*  - Option<T> is a sequence of length 0 (None) or 1 (Some(x)).           *)
(*  - Vec indices are 1-based here (0-based in the source).                *)
(*  - The status labels are written in ASCII, in the order of the enum of  *)
(*    the submit_task_report schema (mcp_http.rs:1247): "draft", "todo",   *)
(*    "rework", "queued", "in_progress", "need_info", "done", "blocked".   *)
(*  - A value that a function computes once and uses several times is the  *)
(*    parameter of a local operator (LET F(v) == ... IN F(expr)).          *)
(***************************************************************************)
EXTENDS Integers, Sequences, FiniteSets, TLC

VARIABLES
    projects,   \* the parsed content of state.json: Vec<Project>
    signal,     \* worker-signal.json: None, or Some of the object last written
    events,     \* the events the last handler call emitted, in order
    clock,      \* the system clock, in milliseconds
    request,    \* the request the last step answered (NoRequest: none)
    response,   \* the answer to it: the HTTP status and the JSON body
    pc,         \* concurrent handlers: where each one stands
    local       \* handler-local memory (each specification says what it holds)

vars == <<projects, signal, events, clock, request, response, pc, local>>

---------------------------------------------------------------------------
(* Option<T> *)

None == <<>>

Some(x) == <<x>>

IsSome(o) == o # <<>>

Unwrap(o) == o[1]

\* a.or_else(|| b)
OrElse(a, b) == IF a # <<>> THEN a ELSE b

SetMin(S) == CHOOSE x \in S : \A y \in S : x <= y

SetMax(S) == CHOOSE x \in S : \A y \in S : y <= x

---------------------------------------------------------------------------
(* str: the character operations the code uses *)

UpperChars ==
    <<"A","B","C","D","E","F","G","H","I","J","K","L","M",
      "N","O","P","Q","R","S","T","U","V","W","X","Y","Z">>

LowerChars ==
    <<"a","b","c","d","e","f","g","h","i","j","k","l","m",
      "n","o","p","q","r","s","t","u","v","w","x","y","z">>

UpperSet == {UpperChars[i] : i \in 1..26}

LowerSet == {LowerChars[i] : i \in 1..26}

ToLower == [c \in UpperSet |-> LowerChars[CHOOSE i \in 1..26 : UpperChars[i] = c]]

Whitespace == {" ", "\t", "\n", "\r"}

\* The CJK characters (U+3400..U+9FFF) that occur in the model's strings.
CjkChars ==
    {"cjk:yan", "cjk:zheng", "cjk:yi", "cjk:xiu", "cjk:fu", "cjk:duo", "cjk:yu",
     "cjk:yan2", "cjk:biao", "cjk:qian", "cjk:tu", "cjk:pian", "cjk:bian",
     "cjk:ji", "cjk:qi", "cjk:zhuo", "cjk:mian", "cjk:duan", "cjk:fa",
     "cjk:bu", "cjk:diao", "cjk:yan3", "cjk:jiao", "cjk:hu", "cjk:gou",
     "cjk:jian", "cjk:he", "cjk:xin", "cjk:xiang", "cjk:qing", "cjk:zhi",
     "cjk:xing", "cjk:zhong", "cjk:zhong1", "cjk:wen", "cjk:jie", "cjk:mian"}

is_ascii_alphabetic(c) == c \in UpperSet \/ c \in LowerSet

to_ascii_lowercase(c) == IF c \in UpperSet THEN ToLower[c] ELSE c

to_lowercase(s) == [i \in 1..Len(s) |-> to_ascii_lowercase(s[i])]

trim(s) ==
    LET Cut(keep) == IF keep = {} THEN <<>> ELSE SubSeq(s, SetMin(keep), SetMax(keep))
    IN  Cut({i \in 1..Len(s) : s[i] \notin Whitespace})

trim_end_matches(s, chars) ==
    LET Cut(keep) == IF keep = {} THEN <<>> ELSE SubSeq(s, 1, SetMax(keep))
    IN  Cut({i \in 1..Len(s) : s[i] \notin chars})

trim_start_matches(s, chars) ==
    LET Cut(keep) == IF keep = {} THEN <<>> ELSE SubSeq(s, SetMin(keep), Len(s))
    IN  Cut({i \in 1..Len(s) : s[i] \notin chars})

starts_with(s, prefix) ==
    Len(s) >= Len(prefix) /\ SubSeq(s, 1, Len(prefix)) = prefix

strip_prefix(s, prefix) ==
    IF starts_with(s, prefix) THEN Some(SubSeq(s, Len(prefix) + 1, Len(s))) ELSE None

contains(s, pat) ==
    \E i \in 0..(Len(s) - Len(pat)) : SubSeq(s, i + 1, i + Len(pat)) = pat

replace_char(s, from, to) == [i \in 1..Len(s) |-> IF s[i] = from THEN to ELSE s[i]]

\* while rest.contains("\\\\") { rest = rest.replace("\\\\", "\\") }:
\* every run of backslashes becomes one backslash.
collapse_backslashes(s) ==
    LET Keep(at) == [k \in 1..Cardinality(at) |->
                        s[CHOOSE i \in at : Cardinality({j \in at : j < i}) = k - 1]]
    IN  Keep({i \in 1..Len(s) : ~(i > 1 /\ s[i] = "\\" /\ s[i - 1] = "\\")})

\* rest.splitn(2, '/'): the part before the first '/', and the part after it.
splitn2_first(s) ==
    LET Cut(at) == IF at = {} THEN s ELSE SubSeq(s, 1, SetMin(at) - 1)
    IN  Cut({i \in 1..Len(s) : s[i] = "/"})

splitn2_second(s) ==
    LET Cut(at) == IF at = {} THEN None ELSE Some(SubSeq(s, SetMin(at) + 1, Len(s)))
    IN  Cut({i \in 1..Len(s) : s[i] = "/"})

---------------------------------------------------------------------------
(* Project lookup *)

strip_trailing_separators(value) == trim_end_matches(value, {"/", "\\"})

is_path_like(value) ==
    LET Like(trimmed) ==
          IF trimmed = <<>> THEN FALSE
          ELSE IF trimmed[1] = "/" THEN TRUE
          ELSE IF \E i \in 1..Len(trimmed) : trimmed[i] \in {"\\", "/"} THEN TRUE
          ELSE Len(trimmed) >= 2 /\ trimmed[2] = ":" /\ is_ascii_alphabetic(trimmed[1])
    IN  Like(trim(value))

normalize_windows_drive_path_for_compare(value) ==
    LET Rooted(rest) ==
          IF rest = <<>> THEN <<>>
          ELSE IF rest[1] # "\\" THEN <<"\\">> \o rest ELSE rest
        Norm(trimmed) ==
          IF Len(trimmed) < 2 THEN None
          ELSE IF ~is_ascii_alphabetic(trimmed[1]) \/ trimmed[2] # ":" THEN None
          ELSE Some(to_lowercase(
                 <<to_ascii_lowercase(trimmed[1]), ":">>
                 \o Rooted(trim_end_matches(
                      collapse_backslashes(
                        replace_char(SubSeq(trimmed, 3, Len(trimmed)), "/", "\\")),
                      {"\\"}))))
    IN  Norm(strip_trailing_separators(trim(value)))

\* A WSL normalisation that keeps the letter case of the path below the drive.
normalize_wsl_mnt_path_keeping_case(value) ==
    LET Windows(drive_char, tail) ==
          IF tail = <<>> THEN Some(<<drive_char, ":">>)
          ELSE Some(<<drive_char, ":", "\\">>
                    \o trim_end_matches(
                         collapse_backslashes(replace_char(tail, "/", "\\")), {"\\"}))
        Drive(drive, second) ==
          IF Len(drive) # 1 THEN None
          ELSE IF drive[1] \in CjkChars \/ ~is_ascii_alphabetic(drive[1]) THEN None
          ELSE Windows(to_ascii_lowercase(drive[1]),
                       trim(trim_start_matches(
                              trim(IF second = None THEN <<>> ELSE Unwrap(second)),
                              {"/"})))
        Rest(rest) ==
          IF rest = None THEN None
          ELSE Drive(trim(splitn2_first(Unwrap(rest))), splitn2_second(Unwrap(rest)))
        Norm(normalized) ==
          Rest(OrElse(strip_prefix(normalized, <<"/","m","n","t","/">>),
                      strip_prefix(normalized, <<"m","n","t","/">>)))
    IN  Norm(replace_char(strip_trailing_separators(trim(value)), "\\", "/"))

normalize_wsl_mnt_path_for_compare(value) ==
    LET Windows(drive_char, tail) ==
          IF tail = <<>> THEN Some(to_lowercase(<<drive_char, ":">>))
          ELSE Some(to_lowercase(
                 <<drive_char, ":", "\\">>
                 \o trim_end_matches(
                      collapse_backslashes(replace_char(tail, "/", "\\")), {"\\"})))
        Drive(drive, second) ==
          IF Len(drive) # 1 THEN None
          ELSE IF drive[1] \in CjkChars \/ ~is_ascii_alphabetic(drive[1]) THEN None
          ELSE Windows(to_ascii_lowercase(drive[1]),
                       trim(trim_start_matches(
                              trim(IF second = None THEN <<>> ELSE Unwrap(second)),
                              {"/"})))
        Rest(rest) ==
          IF rest = None THEN None
          ELSE Drive(trim(splitn2_first(Unwrap(rest))), splitn2_second(Unwrap(rest)))
        Norm(normalized) ==
          Rest(OrElse(strip_prefix(normalized, <<"/","m","n","t","/">>),
                      strip_prefix(normalized, <<"m","n","t","/">>)))
    IN  Norm(replace_char(strip_trailing_separators(trim(value)), "\\", "/"))

normalize_directory_key(value) ==
    LET Plain(normalized) ==
          IF normalized = <<>> THEN None ELSE Some(to_lowercase(normalized))
        Key(trimmed) ==
          IF trimmed = <<>> THEN None
          ELSE OrElse(normalize_wsl_mnt_path_for_compare(trimmed),
                 OrElse(normalize_windows_drive_path_for_compare(trimmed),
                        Plain(replace_char(strip_trailing_separators(trimmed),
                                           "\\", "/"))))
    IN  Key(trim(value))

\* Iterator::position: the lowest index whose element satisfies the predicate.
Position(hits) == IF hits = {} THEN None ELSE Some(SetMin(hits))

\* A lookup that tries the substring rule before the directory rule.
find_project_index_substring_first(ps, name) ==
    LET ByDirectory(raw_kw, query_key) ==
          IF ~is_path_like(raw_kw) THEN None
          ELSE IF query_key = None THEN None
          ELSE Position({i \in 1..Len(ps) :
                           normalize_directory_key(ps[i].directory) = query_key})
        Find(raw_kw, kw) ==
          IF raw_kw = <<>> THEN None
          ELSE OrElse(Position({i \in 1..Len(ps) :
                                  to_lowercase(trim(ps[i].name)) = kw}),
                 OrElse(Position({i \in 1..Len(ps) :
                                    contains(to_lowercase(ps[i].name), kw)}),
                        ByDirectory(raw_kw, normalize_directory_key(raw_kw))))
        Keyword(raw_kw) == Find(raw_kw, to_lowercase(raw_kw))
    IN  Keyword(trim(name))

find_project_index(ps, name) ==
    LET ByDirectory(raw_kw, query_key) ==
          IF ~is_path_like(raw_kw) THEN None
          ELSE IF query_key = None THEN None
          ELSE Position({i \in 1..Len(ps) :
                           normalize_directory_key(ps[i].directory) = query_key})
        Find(raw_kw, kw) ==
          IF raw_kw = <<>> THEN None
          ELSE OrElse(Position({i \in 1..Len(ps) :
                                  to_lowercase(trim(ps[i].name)) = kw}),
                 OrElse(ByDirectory(raw_kw, normalize_directory_key(raw_kw)),
                        Position({i \in 1..Len(ps) :
                                    contains(to_lowercase(ps[i].name), kw)})))
        Keyword(raw_kw) == Find(raw_kw, to_lowercase(raw_kw))
    IN  Keyword(trim(name))

---------------------------------------------------------------------------
(* Data types *)

TaskReport(id, author, content, created_at) ==
    [id |-> id, author |-> author, content |-> content, created_at |-> created_at]

Task(id, title, status, tags, updated_at, reports) ==
    [id |-> id, title |-> title, details |-> "", status |-> status, tags |-> tags,
     version |-> "0.1.0", created_at |-> 0, updated_at |-> updated_at,
     reports |-> reports]

TagLabelDefault == [zh |-> None, en |-> None]

TagDefinitionDefault == [color |-> None, icon |-> None, label |-> None]

Project(id, name, directory, tasks, tag_catalog) ==
    [id |-> id, name |-> name, version |-> "0.1.0", directory |-> directory,
     worker_kind |-> None, tasks |-> tasks, tag_catalog |-> tag_catalog]

\* BTreeMap<String, TagDefinition>: a function on the keys present.
EmptyCatalog == [k \in {} |-> TagDefinitionDefault]

CatalogGet(catalog, key) ==
    IF key \in DOMAIN catalog THEN catalog[key] ELSE TagDefinitionDefault

CatalogPut(catalog, key, def) ==
    [k \in (DOMAIN catalog) \cup {key} |-> IF k = key THEN def ELSE catalog[k]]

\* Utc::now().to_rfc3339_opts(Millis, true): the clock's milliseconds, written
\* with a fixed number of digits, so that timestamps order as the numbers do.
iso_now(now_ms) == now_ms

---------------------------------------------------------------------------
(* Tags *)

is_terminal_task_status_without_draft(status) ==
    status \in {"done", "blocked", "need_info"}

is_terminal_task_status_with_rework(status) ==
    status \in {"draft", "done", "blocked", "need_info", "rework"}

is_terminal_task_status(status) ==
    status \in {"draft", "done", "blocked", "need_info"}

normalize_tag_id(raw) == to_lowercase(trim(raw))

has_cjk(value) == \E i \in 1..Len(value) : value[i] \in CjkChars

has_latin(value) == \E i \in 1..Len(value) : is_ascii_alphabetic(value[i])

\* "mingcute:" followed by the icon name.
Mingcute(name) == <<"m","i","n","g","c","u","t","e",":">> \o name

Preset(zh, en, icon) == Some([zh |-> zh, en |-> en, icon |-> Mingcute(icon)])

resolve_area_preset(area) ==
    CASE area = <<"c","o","r","e">> ->
        Preset(<<"cjk:he","cjk:xin">>, <<"C","o","r","e">>, <<"l","a","y","o","u","t","-","g","r","i","d","-","l","i","n","e">>)
      [] area = <<"u","i">> ->
        Preset(<<"U","I">>, <<"U","I">>, <<"p","a","l","e","t","t","e","-","l","i","n","e">>)
      [] area = <<"t","a","s","k","-","d","e","t","a","i","l">> ->
        Preset(<<"cjk:xiang","cjk:qing">>, <<"D","e","t","a","i","l">>, <<"l","a","y","o","u","t","-","r","i","g","h","t","-","l","i","n","e">>)
      [] area = <<"m","a","r","k","d","o","w","n">> ->
        Preset(<<"M","a","r","k","d","o","w","n">>, <<"M","a","r","k","d","o","w","n">>, <<"l","a","y","e","r","s","-","l","i","n","e">>)
      [] area = <<"w","o","r","k","e","r">> ->
        Preset(<<"cjk:zhi","cjk:xing","cjk:qi">>, <<"W","o","r","k","e","r">>, <<"a","i","-","l","i","n","e">>)
      [] area = <<"m","c","p">> ->
        Preset(<<"M","C","P">>, <<"M","C","P">>, <<"s","e","r","v","e","r","-","l","i","n","e">>)
      [] area = <<"x","t","e","r","m">> ->
        Preset(<<"cjk:zhong","cjk:duan">>, <<"T","e","r","m","i","n","a","l">>, <<"t","e","r","m","i","n","a","l","-","b","o","x","-","l","i","n","e">>)
      [] area = <<"i","1","8","n">> ->
        Preset(<<"cjk:duo","cjk:yu","cjk:yan2">>, <<"i","1","8","n">>, <<"t","r","a","n","s","l","a","t","e","-","l","i","n","e">>)
      [] area = <<"b","u","i","l","d">> ->
        Preset(<<"cjk:gou","cjk:jian">>, <<"B","u","i","l","d">>, <<"s","e","t","t","i","n","g","s","-","3","-","l","i","n","e">>)
      [] area = <<"t","a","g","s">> ->
        Preset(<<"cjk:biao","cjk:qian">>, <<"T","a","g","s">>, <<"t","a","g","-","l","i","n","e">>)
      [] area = <<"r","e","s","e","a","r","c","h">> ->
        Preset(<<"cjk:diao","cjk:yan3">>, <<"R","e","s","e","a","r","c","h">>, <<"s","e","a","r","c","h","-","l","i","n","e">>)
      [] OTHER -> None

resolve_tag_preset(tag_id) ==
    CASE tag_id = <<"m","c","p">> ->
        Preset(<<"M","C","P">>, <<"M","C","P">>, <<"s","e","r","v","e","r","-","l","i","n","e">>)
      [] tag_id = <<"v","e","r","i","f","y">> ->
        Preset(<<"cjk:yan","cjk:zheng">>, <<"V","e","r","i","f","y">>, <<"c","h","e","c","k","-","l","i","n","e">>)
      [] tag_id = <<"v","e","r","i","f","i","e","d">> ->
        Preset(<<"cjk:yi","cjk:yan","cjk:zheng">>, <<"V","e","r","i","f","i","e","d">>, <<"c","h","e","c","k","-","l","i","n","e">>)
      [] tag_id = <<"u","i">> ->
        Preset(<<"U","I">>, <<"U","I">>, <<"p","a","l","e","t","t","e","-","l","i","n","e">>)
      [] tag_id = <<"f","i","x">> ->
        Preset(<<"cjk:xiu","cjk:fu">>, <<"F","i","x">>, <<"s","h","i","e","l","d","-","l","i","n","e">>)
      [] tag_id = <<"i","1","8","n">> ->
        Preset(<<"cjk:duo","cjk:yu","cjk:yan2">>, <<"i","1","8","n">>, <<"t","r","a","n","s","l","a","t","e","-","l","i","n","e">>)
      [] tag_id = <<"t","a","g">> ->
        Preset(<<"cjk:biao","cjk:qian">>, <<"T","a","g">>, <<"t","a","g","-","l","i","n","e">>)
      [] tag_id = <<"i","c","o","n">> ->
        Preset(<<"cjk:tu","cjk:biao">>, <<"I","c","o","n">>, <<"t","a","g","-","l","i","n","e">>)
      [] tag_id = <<"i","m","a","g","e">> ->
        Preset(<<"cjk:tu","cjk:pian">>, <<"I","m","a","g","e">>, <<"l","a","y","e","r","s","-","l","i","n","e">>)
      [] tag_id = <<"e","d","i","t","o","r">> ->
        Preset(<<"cjk:bian","cjk:ji","cjk:qi">>, <<"E","d","i","t","o","r">>, <<"c","o","d","e","-","l","i","n","e">>)
      [] tag_id = <<"d","e","s","k","t","o","p">> ->
        Preset(<<"cjk:zhuo","cjk:mian","cjk:duan">>, <<"D","e","s","k","t","o","p">>, <<"c","o","m","p","u","t","e","r","-","l","i","n","e">>)
      [] tag_id = <<"c","i">> ->
        Preset(<<"C","I">>, <<"C","I">>, <<"s","e","t","t","i","n","g","s","-","3","-","l","i","n","e">>)
      [] tag_id = <<"r","e","l","e","a","s","e">> ->
        Preset(<<"cjk:fa","cjk:bu">>, <<"R","e","l","e","a","s","e">>, <<"s","e","t","t","i","n","g","s","-","3","-","l","i","n","e">>)
      [] tag_id = <<"r","e","s","e","a","r","c","h">> ->
        Preset(<<"cjk:diao","cjk:yan3">>, <<"R","e","s","e","a","r","c","h">>, <<"s","e","a","r","c","h","-","l","i","n","e">>)
      [] tag_id = <<"b","l","o","c","k","n","o","t","e">> ->
        Preset(<<"B","l","o","c","k","N","o","t","e">>, <<"B","l","o","c","k","N","o","t","e">>, <<"l","a","y","e","r","s","-","l","i","n","e">>)
      [] tag_id = <<"h","a","p","i">> ->
        Preset(<<"H","a","p","i">>, <<"H","a","p","i">>, <<"s","e","r","v","e","r","-","l","i","n","e">>)
      [] tag_id = <<"i","n","t","e","r","a","c","t","i","v","e">> ->
        Preset(<<"cjk:jiao","cjk:hu">>, <<"I","n","t","e","r","a","c","t","i","v","e">>, <<"p","a","l","e","t","t","e","-","l","i","n","e">>)
      [] tag_id = <<"a","r","e","a",":","b","u","i","l","d">> ->
        Preset(<<"cjk:gou","cjk:jian">>, <<"B","u","i","l","d">>, <<"s","e","t","t","i","n","g","s","-","3","-","l","i","n","e">>)
      [] tag_id = <<"a","r","e","a",":","t","a","g","s">> ->
        Preset(<<"cjk:biao","cjk:qian">>, <<"T","a","g","s">>, <<"t","a","g","-","l","i","n","e">>)
      [] tag_id = <<"a","r","e","a",":","r","e","s","e","a","r","c","h">> ->
        Preset(<<"cjk:diao","cjk:yan3">>, <<"R","e","s","e","a","r","c","h">>, <<"s","e","a","r","c","h","-","l","i","n","e">>)
      [] IsSome(strip_prefix(tag_id, <<"a","r","e","a",":">>)) ->
        resolve_area_preset(Unwrap(strip_prefix(tag_id, <<"a","r","e","a",":">>)))
      [] OTHER -> None

build_auto_tag_definition(raw_tag) ==
    LET Label(zh, en) ==
          IF IsSome(zh) \/ IsSome(en) THEN Some([zh |-> zh, en |-> en]) ELSE None
        Borrow(zh, en) ==
          Label(zh, IF en = None /\ IsSome(zh) /\ has_latin(Unwrap(zh)) THEN zh ELSE en)
        Fallback(raw, zh, en) ==
          Borrow(IF zh = None /\ raw # <<>> THEN Some(raw) ELSE zh, en)
        ByScript(raw, zh, en) ==
          Fallback(raw,
                   IF zh = None /\ raw # <<>> /\ has_cjk(raw) THEN Some(raw) ELSE zh,
                   IF en = None /\ raw # <<>> /\ has_latin(raw) THEN Some(raw) ELSE en)
        Build(raw, preset) ==
          [color |-> None,
           icon  |-> Some(IF IsSome(preset) THEN Unwrap(preset).icon
                          ELSE Mingcute(<<"t","a","g","-","l","i","n","e">>)),
           label |-> ByScript(raw,
                              IF IsSome(preset) THEN Some(Unwrap(preset).zh) ELSE None,
                              IF IsSome(preset) THEN Some(Unwrap(preset).en) ELSE None)]
        Raw(raw) == Build(raw, resolve_tag_preset(normalize_tag_id(raw)))
    IN  Raw(trim(raw_tag))

\* One turn of the loop of ensure_tag_catalog_for_tags, with an inference that
\* replaces the icon and the labels of an entry that already has them.
ensure_tag_overwriting(acc, raw_tag) ==
    LET Put(tag_id, entry, new) ==
          [catalog |-> CatalogPut(acc.catalog, tag_id, new),
           changed |-> acc.changed \/ new # entry]
        Merge(tag_id, inferred, entry) ==
          Put(tag_id, entry,
              [entry EXCEPT !.icon = inferred.icon, !.label = inferred.label])
        Turn(tag_id) ==
          IF tag_id = <<>> THEN acc
          ELSE Merge(tag_id, build_auto_tag_definition(raw_tag),
                     CatalogGet(acc.catalog, tag_id))
    IN  Turn(normalize_tag_id(raw_tag))

\* One turn of a loop that defines only the tags the catalog does not hold.
ensure_tag_new_only(acc, raw_tag) ==
    LET Turn(tag_id) ==
          IF tag_id = <<>> \/ tag_id \in DOMAIN acc.catalog THEN acc
          ELSE [catalog |-> CatalogPut(acc.catalog, tag_id,
                                       build_auto_tag_definition(raw_tag)),
                changed |-> TRUE]
    IN  Turn(normalize_tag_id(raw_tag))

\* One turn of the loop of ensure_tag_catalog_for_tags.
ensure_tag(acc, raw_tag) ==
    LET Put(tag_id, entry, fill_icon, icon, label_changed, label) ==
          [catalog |-> CatalogPut(acc.catalog, tag_id,
                         [entry EXCEPT
                            !.icon  = IF fill_icon THEN icon ELSE @,
                            !.label = IF label_changed THEN Some(label) ELSE @]),
           changed |-> acc.changed \/ fill_icon \/ label_changed]
        Fill(tag_id, inferred, entry, label, zh, en) ==
          Put(tag_id, entry,
              entry.icon = None /\ IsSome(inferred.icon), inferred.icon,
              (label.zh = None /\ IsSome(zh)) \/ (label.en = None /\ IsSome(en)),
              [zh |-> IF label.zh = None /\ IsSome(zh) THEN zh ELSE label.zh,
               en |-> IF label.en = None /\ IsSome(en) THEN en ELSE label.en])
        Merge(tag_id, inferred, entry) ==
          Fill(tag_id, inferred, entry,
               IF IsSome(entry.label) THEN Unwrap(entry.label) ELSE TagLabelDefault,
               IF IsSome(inferred.label) THEN Unwrap(inferred.label).zh ELSE None,
               IF IsSome(inferred.label) THEN Unwrap(inferred.label).en ELSE None)
        Turn(tag_id) ==
          IF tag_id = <<>> THEN acc
          ELSE Merge(tag_id, build_auto_tag_definition(raw_tag),
                     CatalogGet(acc.catalog, tag_id))
    IN  Turn(normalize_tag_id(raw_tag))

RECURSIVE ensure_tag_catalog_from(_, _)
ensure_tag_catalog_from(acc, tags) ==
    IF tags = <<>> THEN acc
    ELSE ensure_tag_catalog_from(ensure_tag(acc, Head(tags)), Tail(tags))

\* The catalog after the call, and the bool the function returns.
ensure_tag_catalog_for_tags(catalog, tags) ==
    ensure_tag_catalog_from([catalog |-> catalog, changed |-> FALSE], tags)

is_valid_mingcute_icon(icon) ==
    starts_with(to_lowercase(trim(icon)), Mingcute(<<>>))

---------------------------------------------------------------------------
(* JSON arguments and tool results *)

\* args.get(key): the value when the object has the key.
Get(args, key) == IF key \in DOMAIN args THEN Some(args[key]) ELSE None

\* args.get(key).and_then(as_str).unwrap_or(""), for a string of characters.
StrArg(args, key) == IF key \in DOMAIN args THEN args[key] ELSE <<>>

\* The same for a string the code only stores and compares.
AtomArg(args, key) == IF key \in DOMAIN args THEN args[key] ELSE ""

\* .map(|s| s.trim()).filter(|s| !s.is_empty())
TrimmedNonEmpty(args, key) ==
    LET Filter(s) == IF s = <<>> THEN None ELSE Some(s)
    IN  IF key \in DOMAIN args THEN Filter(trim(args[key])) ELSE None

\* An element of a JSON array: a string, [str |-> s], or another value.
IsJsonStr(v) == "str" \in DOMAIN v

Take(s, n) == SubSeq(s, 1, IF Len(s) < n THEN Len(s) ELSE n)

MaxTags == 5

\* A parse_tags that keeps every string entry.
parse_tags_uncapped(args) ==
    LET Strings(strs) == [i \in 1..Len(strs) |-> strs[i].str]
    IN  IF "tags" \in DOMAIN args THEN Strings(SelectSeq(args.tags, IsJsonStr)) ELSE <<>>

\* a.iter().filter_map(|v| v.as_str().map(String::from)).take(5).collect()
parse_tags(args) ==
    LET Strings(strs) == Take([i \in 1..Len(strs) |-> strs[i].str], MaxTags)
    IN  IF "tags" \in DOMAIN args THEN Strings(SelectSeq(args.tags, IsJsonStr)) ELSE <<>>

\* json!({ "content": [{ "type": "text", "text": ... }] }); the text is kept as
\* the values that the format string is filled with.
ToolText(text) == [content |-> <<[type |-> "text", text |-> text]>>]

ToolError(text) == [content |-> <<[type |-> "text", text |-> text]>>, isError |-> TRUE]

\* What a handler does besides answering: the document it writes (write_state),
\* the signal file it writes, and the events it emits.
Effects(write, sig, emitted, result) ==
    [write |-> write, signal |-> sig, events |-> emitted, result |-> result]

NoEffects(result) == Effects(None, None, <<>>, result)

\* The document read_state() returns when the disk holds `disk` (the file is
\* there and parses; the document keeps the shape serde gives it).
read_state(disk) == disk

\* A write_state that merges: task by task it keeps the longer list of reports,
\* the one on the disk or the one of the handler.
write_state_merging(disk, ps) ==
    [i \in 1..Len(ps) |->
        [ps[i] EXCEPT !.tasks =
            [j \in 1..Len(ps[i].tasks) |->
                IF i <= Len(disk) /\ j <= Len(disk[i].tasks)
                     /\ Len(disk[i].tasks[j].reports) > Len(ps[i].tasks[j].reports)
                THEN disk[i].tasks[j] ELSE ps[i].tasks[j]]]]

\* The document after write_state(ps) when the disk holds `disk`: the whole
\* file is overwritten (the write is taken to succeed; the code ignores its
\* result and answers success either way).
write_state(disk, ps) == ps

IsUnresolved(task) == ~is_terminal_task_status(task.status)

\* The unresolved tasks listed last first.
unresolved_tasks_reversed(tasks) ==
    LET Reverse(u) == [i \in 1..Len(u) |-> u[Len(u) + 1 - i]]
    IN  Reverse(SelectSeq(tasks, IsUnresolved))

unresolved_tasks(tasks) == SelectSeq(tasks, IsUnresolved)

RefusalLines(unresolved) ==
    [i \in 1..Len(unresolved) |->
        [index |-> i, status |-> unresolved[i].status,
         title |-> unresolved[i].title, id |-> unresolved[i].id]]

WorkerSignal(project, summary, now_ms) ==
    [project |-> project, summary |-> summary, timestamp |-> iso_now(now_ms),
     action |-> "finish"]

WorkerFinishedEvent(project, summary) ==
    [name |-> "maple://worker-finished", project |-> project, summary |-> summary]

TaskUpdatedEvent(project_name, task) ==
    [name |-> "maple://task-updated", project_name |-> project_name, task |-> task]

TagCatalogUpdatedEvent(project_name, tag_catalog) ==
    [name |-> "maple://tag-catalog-updated", project_name |-> project_name,
     tag_catalog |-> tag_catalog]

\* A lookup failure that saves the empty list before it answers.
ProjectNotFoundSavingNothing(project_name) ==
    Effects(Some(<<>>), None, <<>>,
            ToolError([fmt |-> "project_not_found", project |-> project_name]))

ProjectNotFound(project_name) ==
    NoEffects(ToolError([fmt |-> "project_not_found", project |-> project_name]))

Unresolved(target, unresolved) ==
    ToolError([fmt |-> "unresolved", project |-> target.name,
               count |-> Len(unresolved), lines |-> RefusalLines(unresolved)])

Finished(target) == ToolText([fmt |-> "finished", project |-> target.name])

---------------------------------------------------------------------------
(* MCP tool handlers *)

\* A finish_worker that writes the signal file before it looks at the tasks.
tool_finish_worker_signal_first(args, ps, now_ms) ==
    LET Gate(target, unresolved, sig) ==
          IF unresolved # <<>>
          THEN Effects(None, sig, <<>>, Unresolved(target, unresolved))
          ELSE Effects(None, sig,
                       <<WorkerFinishedEvent(target.name, AtomArg(args, "summary"))>>,
                       Finished(target))
        Target(target) ==
          Gate(target, unresolved_tasks(target.tasks),
               Some(WorkerSignal(target.name, AtomArg(args, "summary"), now_ms)))
        Found(idx) ==
          IF idx = None THEN ProjectNotFound(StrArg(args, "project"))
          ELSE Target(ps[Unwrap(idx)])
    IN  Found(find_project_index(ps, StrArg(args, "project")))

\* A finish_worker that remembers: once it has refused, it keeps refusing.
tool_finish_worker_sticky(args, ps, now_ms) ==
    LET Gate(target, unresolved) ==
          IF unresolved # <<>> \/ (\E k \in 1..Len(local) : local[k] = "refused")
          THEN NoEffects(Unresolved(target, unresolved))
          ELSE Effects(None,
                       Some(WorkerSignal(target.name, AtomArg(args, "summary"), now_ms)),
                       <<WorkerFinishedEvent(target.name, AtomArg(args, "summary"))>>,
                       Finished(target))
        Target(target) == Gate(target, unresolved_tasks(target.tasks))
        Found(idx) ==
          IF idx = None THEN ProjectNotFound(StrArg(args, "project"))
          ELSE Target(ps[Unwrap(idx)])
    IN  Found(find_project_index(ps, StrArg(args, "project")))

tool_finish_worker(args, ps, now_ms) ==
    LET Gate(target, unresolved) ==
          IF unresolved # <<>>
          THEN NoEffects(Unresolved(target, unresolved))
          ELSE Effects(None,
                       Some(WorkerSignal(target.name, AtomArg(args, "summary"), now_ms)),
                       <<WorkerFinishedEvent(target.name, AtomArg(args, "summary"))>>,
                       Finished(target))
        Target(target) == Gate(target, unresolved_tasks(target.tasks))
        Found(idx) ==
          IF idx = None THEN ProjectNotFound(StrArg(args, "project"))
          ELSE Target(ps[Unwrap(idx)])
    IN  Found(find_project_index(ps, StrArg(args, "project")))

\* A mutation block that keeps only the newest report.
ReportedTaskKeepingLast(task, status, report_content, tags, now_ms, ts_ms) ==
    [task EXCEPT
        !.reports    = <<TaskReport(<<"report", ts_ms>>, "mcp",
                                    report_content, iso_now(now_ms))>>,
        !.updated_at = iso_now(now_ms),
        !.status     = IF IsSome(status) THEN Unwrap(status) ELSE @,
        !.tags       = IF tags # <<>> THEN tags ELSE @]

\* A mutation block that refreshes updatedAt only when the status changes.
ReportedTaskStampOnStatus(task, status, report_content, tags, now_ms, ts_ms) ==
    [task EXCEPT
        !.reports    = Append(@, TaskReport(<<"report", ts_ms>>, "mcp",
                                            report_content, iso_now(now_ms))),
        !.updated_at = IF IsSome(status) THEN iso_now(now_ms) ELSE @,
        !.status     = IF IsSome(status) THEN Unwrap(status) ELSE @,
        !.tags       = IF tags # <<>> THEN tags ELSE @]

\* A mutation block that moves a task to in_progress when the report names no
\* status.
ReportedTaskStartingWork(task, status, report_content, tags, now_ms, ts_ms) ==
    [task EXCEPT
        !.reports    = Append(@, TaskReport(<<"report", ts_ms>>, "mcp",
                                            report_content, iso_now(now_ms))),
        !.updated_at = iso_now(now_ms),
        !.status     = IF IsSome(status) THEN Unwrap(status) ELSE "in_progress",
        !.tags       = IF tags # <<>> THEN tags ELSE @]

\* The task after the mutation block of submit_task_report.
ReportedTask(task, status, report_content, tags, now_ms, ts_ms) ==
    [task EXCEPT
        !.reports    = Append(@, TaskReport(<<"report", ts_ms>>, "mcp",
                                            report_content, iso_now(now_ms))),
        !.updated_at = iso_now(now_ms),
        !.status     = IF IsSome(status) THEN Unwrap(status) ELSE @,
        !.tags       = IF tags # <<>> THEN tags ELSE @]

tool_submit_task_report(args, ps, now_ms, ts_ms) ==
    LET Written(idx, task_index, target, task_snapshot, ensured) ==
          Effects(Some([ps EXCEPT ![idx].tasks[task_index] = task_snapshot,
                                  ![idx].tag_catalog = ensured.catalog]),
                  None,
                  <<TaskUpdatedEvent(target.name, task_snapshot)>>
                    \o (IF ensured.changed
                        THEN <<TagCatalogUpdatedEvent(target.name, ensured.catalog)>>
                        ELSE <<>>),
                  ToolText([fmt |-> "report_submitted", project |-> target.name,
                            task_title |-> target.tasks[task_index].title,
                            status |-> Get(args, "status")]))
        Mutated(idx, task_index, target, task_snapshot) ==
          Written(idx, task_index, target, task_snapshot,
                  ensure_tag_catalog_for_tags(target.tag_catalog, task_snapshot.tags))
        Target(idx, target, task_index) ==
          IF task_index = None
          THEN NoEffects(ToolError([fmt |-> "task_not_found", project |-> target.name,
                                    task_id |-> AtomArg(args, "task_id")]))
          ELSE Mutated(idx, Unwrap(task_index), target,
                       ReportedTask(target.tasks[Unwrap(task_index)],
                                    Get(args, "status"), AtomArg(args, "report"),
                                    parse_tags(args), now_ms, ts_ms))
        Found(idx) ==
          IF idx = None THEN ProjectNotFound(StrArg(args, "project"))
          ELSE Target(Unwrap(idx), ps[Unwrap(idx)],
                      Position({i \in 1..Len(ps[Unwrap(idx)].tasks) :
                                  ps[Unwrap(idx)].tasks[i].id = AtomArg(args, "task_id")}))
    IN  Found(find_project_index(ps, StrArg(args, "project")))

\* An upsert that fills only the fields that are still empty.
UpsertedEntryFillOnly(entry, color, icon, label_zh, label_en) ==
    LET Merged(label) ==
          [color |-> IF entry.color = None THEN color ELSE entry.color,
           icon  |-> IF entry.icon = None /\ IsSome(icon)
                     THEN Some(to_lowercase(Unwrap(icon))) ELSE entry.icon,
           label |-> IF (label.zh = None /\ IsSome(label_zh))
                          \/ (label.en = None /\ IsSome(label_en))
                     THEN Some([zh |-> IF label.zh = None THEN label_zh ELSE label.zh,
                                en |-> IF label.en = None THEN label_en ELSE label.en])
                     ELSE entry.label]
    IN  Merged(IF IsSome(entry.label) THEN Unwrap(entry.label) ELSE TagLabelDefault)

\* The catalog entry after upsert_tag_definition filled in the given fields.
UpsertedEntry(entry, color, icon, label_zh, label_en) ==
    LET Labelled(zh, en) ==
          IF zh = None /\ en = None THEN None ELSE Some([zh |-> zh, en |-> en])
        Merged(label) ==
          [color |-> IF IsSome(color) THEN color ELSE entry.color,
           icon  |-> IF IsSome(icon) THEN Some(to_lowercase(Unwrap(icon))) ELSE entry.icon,
           label |-> IF IsSome(label_zh) \/ IsSome(label_en)
                     THEN Labelled(IF IsSome(label_zh) THEN label_zh ELSE label.zh,
                                   IF IsSome(label_en) THEN label_en ELSE label.en)
                     ELSE entry.label]
    IN  Merged(IF IsSome(entry.label) THEN Unwrap(entry.label) ELSE TagLabelDefault)

tool_upsert_tag_definition(args, ps) ==
    LET Written(idx, target, tag_id, new_catalog) ==
          Effects(Some([ps EXCEPT ![idx].tag_catalog = new_catalog]), None,
                  <<TagCatalogUpdatedEvent(target.name, new_catalog)>>,
                  ToolText([fmt |-> "tag_updated", project |-> target.name,
                            tag_id |-> tag_id]))
        Target(idx, target, tag_id, icon) ==
          Written(idx, target, tag_id,
                  CatalogPut(target.tag_catalog, tag_id,
                             UpsertedEntry(CatalogGet(target.tag_catalog, tag_id),
                                           TrimmedNonEmpty(args, "color"), icon,
                                           TrimmedNonEmpty(args, "label_zh"),
                                           TrimmedNonEmpty(args, "label_en"))))
        Found(idx, tag_id, icon) ==
          IF idx = None THEN ProjectNotFound(StrArg(args, "project"))
          ELSE Target(Unwrap(idx), ps[Unwrap(idx)], tag_id, icon)
        Checked(tag_id, icon) ==
          IF tag_id = <<>> THEN NoEffects(ToolError([fmt |-> "tag_empty"]))
          ELSE IF IsSome(icon) /\ ~is_valid_mingcute_icon(Unwrap(icon))
          THEN NoEffects(ToolError([fmt |-> "icon_not_mingcute"]))
          ELSE Found(find_project_index(ps, StrArg(args, "project")), tag_id, icon)
    IN  Checked(normalize_tag_id(StrArg(args, "tag")), TrimmedNonEmpty(args, "icon"))

---------------------------------------------------------------------------
(* MCP query tools: they read the document and write nothing *)

\* sort_by(|a, b| key(b).cmp(&key(a))): a stable sort, greatest key first.
\* `keys` is the sequence of the elements' keys.
SortedDescBy(s, keys) ==
    LET Rank(i) == Cardinality({j \in 1..Len(s) : keys[j] > keys[i]})
                     + Cardinality({j \in 1..(i - 1) : keys[j] = keys[i]}) + 1
    IN  [k \in 1..Len(s) |-> s[CHOOSE i \in 1..Len(s) : Rank(i) = k]]

RECURSIVE Concat(_)
Concat(seqs) == IF seqs = <<>> THEN <<>> ELSE Head(seqs) \o Concat(Tail(seqs))

\* The characters of the report texts of the model; the document keeps a
\* report's content as one value.
ReportChars ==
    [content \in {"", "r1", "r2"} |->
        CASE content = "r1" -> <<"F","i","x","e","d"," ","r","1">>
          [] content = "r2" -> <<"s","e","e"," ","R","2">>
          [] OTHER -> <<>>]

IsWrittenReport(report) == report.content # ""

MaxHistoryItems == 5

\* The reports with content, newest first, the first five of them as lines,
\* and how many are left out.  The preview of a report is its content (the
\* model's contents are shorter than the 220 characters kept).
build_report_history_lines(reports) ==
    LET Line(report) ==
          [author |-> IF report.author = "" THEN "unknown" ELSE report.author,
           timestamp |-> report.created_at,
           preview |-> report.content]
        Lines(displayed, total) ==
          [displayed |-> [i \in 1..Len(displayed) |-> Line(displayed[i])],
           total |-> total,
           omitted |-> IF total > MaxHistoryItems THEN total - MaxHistoryItems ELSE 0]
        Sorted(sorted) == Lines(Take(sorted, MaxHistoryItems), Len(sorted))
        Written(written) ==
          Sorted(SortedDescBy(written, [i \in 1..Len(written) |-> written[i].created_at]))
    IN  Written(SelectSeq(reports, IsWrittenReport))

\* A filter that lets drafts through.
IsTodoListingDrafts(t) == t.status # "done"

IsTodo(t) == t.status # "done" /\ t.status # "draft"

\* The answer of query_project_todos for a project that did not resolve: the
\* names of the projects there are; the result carries no isError.
TodosProjectNotFound(name, ps) ==
    NoEffects(ToolText([fmt |-> "project_not_found_available", project |-> name,
                        names |-> [i \in 1..Len(ps) |-> ps[i].name]]))

tool_query_project_todos(args, ps) ==
    LET Block(i, t) ==
          [index |-> i, status |-> t.status,
           title |-> IF t.title = "" THEN "(untitled)" ELSE t.title,
           tags |-> t.tags, id |-> t.id,
           details |-> IF t.details = "" THEN "(empty)" ELSE t.details,
           history |-> build_report_history_lines(t.reports)]
        Listed(target, todos) ==
          IF todos = <<>>
          THEN NoEffects(ToolText([fmt |-> "no_todos", project |-> target.name]))
          ELSE NoEffects(ToolText([fmt |-> "todos", project |-> target.name,
                                   count |-> Len(todos),
                                   lines |-> [i \in 1..Len(todos) |-> Block(i, todos[i])]]))
        Filtered(target, todos) ==
          Listed(target,
                 SortedDescBy(todos, [i \in 1..Len(todos) |-> todos[i].updated_at]))
        Found(idx) ==
          IF idx = None THEN TodosProjectNotFound(StrArg(args, "project"), ps)
          ELSE Filtered(ps[Unwrap(idx)], SelectSeq(ps[Unwrap(idx)].tasks, IsTodo))
    IN  Found(find_project_index(ps, StrArg(args, "project")))

DefaultLimit == 10

tool_query_recent_context(args, ps) ==
    LET Matches(report, keyword) ==
          /\ report.content # ""
          /\ keyword = None
               \/ contains(to_lowercase(ReportChars[report.content]),
                           to_lowercase(Unwrap(keyword)))
        ReportItems(p, task, keyword) ==
          LET Keep(report) == Matches(report, keyword)
              Item(report) == [project |-> p.name, task |-> task.title,
                               at |-> report.created_at, text |-> report.content]
              Kept(kept) == [i \in 1..Len(kept) |-> Item(kept[i])]
          IN  Kept(SelectSeq(task.reports, Keep))
        TaskItems(p, keyword) ==
          Concat([t \in 1..Len(p.tasks) |-> ReportItems(p, p.tasks[t], keyword)])
        Answered(result) ==
          IF result = <<>> THEN NoEffects(ToolText([fmt |-> "no_reports"]))
          ELSE NoEffects(ToolText([fmt |-> "reports", lines |-> result]))
        Collected(items, limit) ==
          Answered(Take(SortedDescBy(items, [i \in 1..Len(items) |-> items[i].at]),
                        limit))
        Limit(limit) == IF limit < 1 THEN 1 ELSE limit
        Indices(indices) ==
          Collected(Concat([k \in 1..Len(indices) |->
                              TaskItems(ps[indices[k]], Get(args, "keyword"))]),
                    Limit(IF "limit" \in DOMAIN args THEN args.limit ELSE DefaultLimit))
        Found(idx) == Indices(IF idx = None THEN <<>> ELSE <<Unwrap(idx)>>)
    IN  IF "project" \in DOMAIN args
        THEN Found(find_project_index(ps, args.project))
        ELSE Indices([i \in 1..Len(ps) |-> i])

\* The text block of query_task_details.  The details of the model's tasks
\* hold no maple:// link, so no image block follows the text.
tool_query_task_details(args, ps) ==
    LET Details(task) ==
          NoEffects(ToolText([fmt |-> "task_details", title |-> task.title,
                              id |-> task.id, status |-> task.status,
                              tags |-> task.tags, version |-> task.version,
                              updated_at |-> task.updated_at,
                              details |-> IF task.details = "" THEN "(empty)"
                                          ELSE task.details]))
        Target(target, task_index) ==
          IF task_index = None
          THEN NoEffects(ToolError([fmt |-> "task_not_found", project |-> target.name,
                                    task_id |-> AtomArg(args, "task_id")]))
          ELSE Details(target.tasks[Unwrap(task_index)])
        Found(idx) ==
          IF idx = None THEN ProjectNotFound(StrArg(args, "project"))
          ELSE Target(ps[Unwrap(idx)],
                      Position({i \in 1..Len(ps[Unwrap(idx)].tasks) :
                                  ps[Unwrap(idx)].tasks[i].id = AtomArg(args, "task_id")}))
    IN  Found(find_project_index(ps, StrArg(args, "project")))

\* A file name of the asset directory: 64 lower-case hex digits, written here
\* as one token, a dot and an extension.
HashTokens == {"hash:1", "hash:2"}

DigitSet == {"0", "1", "2", "3", "4", "5", "6", "7", "8", "9"}

MaxExtLen == 8

is_valid_asset_file_name(value) ==
    LET Valid(trimmed) ==
          /\ Len(trimmed) >= 3
          /\ trimmed[1] \in HashTokens
          /\ trimmed[2] = "."
          /\ Len(trimmed) - 2 <= MaxExtLen
          /\ \A i \in 3..Len(trimmed) :
                is_ascii_alphabetic(trimmed[i]) \/ trimmed[i] \in DigitSet
    IN  Valid(trim(value))

mime_from_extension(ext) ==
    LET Mime(normalized) ==
          CASE normalized = <<"p","n","g">> -> "image/png"
            [] normalized = <<"j","p","g">> \/ normalized = <<"j","p","e","g">> -> "image/jpeg"
            [] normalized = <<"w","e","b","p">> -> "image/webp"
            [] normalized = <<"g","i","f">> -> "image/gif"
            [] normalized = <<"s","v","g">> -> "image/svg+xml"
            [] OTHER -> "application/octet-stream"
    IN  Mime(to_lowercase(trim(ext)))

\* The asset directory: the files there are, and whether a file is larger
\* than the 3 MiB that are inlined.
AssetFiles ==
    [name \in {<<"hash:1", ".", "p","n","g">>, <<"hash:2", ".", "P","N","G">>,
               <<"hash:2", ".", "t","x","t">>} |->
        [too_large |-> name[1] = "hash:2" /\ name[3] = "P"]]

Ok(value) == [ok |-> TRUE, value |-> value]

Err(error) == [ok |-> FALSE, error |-> error]

read_asset_base64_image(file_name) ==
    LET Encoded(trimmed, mime) ==
          IF mime = "application/octet-stream" THEN Err("unsupported image type")
          ELSE Ok([data |-> <<"base64", trimmed>>, mime_type |-> mime])
        Read(trimmed) ==
          IF ~is_valid_asset_file_name(trimmed) THEN Err("invalid asset file name")
          ELSE IF trimmed \notin DOMAIN AssetFiles THEN Err("asset file does not exist")
          ELSE IF AssetFiles[trimmed].too_large THEN Err("image too large")
          ELSE Encoded(trimmed, mime_from_extension(SubSeq(trimmed, 3, Len(trimmed))))
    IN  Read(trim(file_name))

parse_maple_asset_file_name(url) ==
    LET Parse(trimmed) ==
          OrElse(strip_prefix(trimmed, <<"m","a","p","l","e",":","/","/","a","s","s","e","t","/">>),
            OrElse(strip_prefix(trimmed, <<"m","a","p","l","e",":","/","/","l","o","c","a","l",
                                           "h","o","s","t","/","a","s","s","e","t","/">>),
                   strip_prefix(trimmed, <<"m","a","p","l","e",":","/","/","/","a","s","s","e","t","/">>)))
    IN  Parse(trim_end_matches(trim(url), {"/"}))

normalize_asset_file_name_arg(raw) ==
    LET Named(trimmed, asset, maple) ==
          IF trimmed = <<>> THEN None
          ELSE IF IsSome(asset) THEN Some(trim(Unwrap(asset)))
          ELSE IF IsSome(maple) THEN Some(trim(Unwrap(maple)))
          ELSE Some(trimmed)
        Trimmed(trimmed) ==
          Named(trimmed, strip_prefix(trimmed, <<"a","s","s","e","t",":","/","/">>),
                parse_maple_asset_file_name(trimmed))
    IN  Trimmed(trim(raw))

tool_read_asset_image(args) ==
    LET Image(file_name, read) ==
          IF read.ok
          THEN NoEffects([content |-> <<[type |-> "text", text |-> [fmt |-> "image", file_name |-> file_name]],
                                        [type |-> "image", mimeType |-> read.value.mime_type,
                                         data |-> read.value.data]>>])
          ELSE NoEffects(ToolError([fmt |-> "image_read_failed", file_name |-> file_name,
                                    error |-> read.error]))
        Named(file_name) ==
          IF file_name = None
          THEN NoEffects(ToolError([fmt |-> "missing_file_name"]))
          ELSE Image(Unwrap(file_name), read_asset_base64_image(Unwrap(file_name)))
    IN  Named(normalize_asset_file_name_arg(
                IF "file_name" \in DOMAIN args THEN args.file_name
                ELSE StrArg(args, "url")))

\* The lines of query_tag_catalog, one for each tag of the catalog.
tool_query_tag_catalog(args, ps) ==
    LET Unset == <<"(","u","n","s","e","t",")">>
        Label(def) == IF IsSome(def.label) THEN Unwrap(def.label) ELSE TagLabelDefault
        Line(def, label) ==
          [color |-> IF IsSome(def.color) THEN Unwrap(def.color) ELSE Unset,
           icon |-> IF IsSome(def.icon) THEN Unwrap(def.icon) ELSE Unset,
           label_zh |-> IF IsSome(label.zh) THEN Unwrap(label.zh) ELSE Unset,
           label_en |-> IF IsSome(label.en) THEN Unwrap(label.en) ELSE Unset]
        Listed(target) ==
          IF DOMAIN target.tag_catalog = {}
          THEN NoEffects(ToolText([fmt |-> "no_tag_catalog", project |-> target.name]))
          ELSE NoEffects(ToolText([fmt |-> "tag_catalog", project |-> target.name,
                                   lines |-> [tag \in DOMAIN target.tag_catalog |->
                                                Line(target.tag_catalog[tag],
                                                     Label(target.tag_catalog[tag]))]]))
        Found(idx) ==
          IF idx = None THEN ProjectNotFound(StrArg(args, "project"))
          ELSE Listed(ps[Unwrap(idx)])
    IN  Found(find_project_index(ps, StrArg(args, "project")))

---------------------------------------------------------------------------
(* JSON-RPC *)

\* A catalog that lists a tool the dispatch does not know.
tool_definitions_with_list_projects ==
    <<"query_project_todos", "query_task_details", "read_asset_image",
      "query_recent_context", "submit_task_report", "query_tag_catalog",
      "upsert_tag_definition", "finish_worker", "list_projects">>

\* The names of the tool descriptors of tools/list, in their order.
tool_definitions ==
    <<"query_project_todos", "query_task_details", "read_asset_image",
      "query_recent_context", "submit_task_report", "query_tag_catalog",
      "upsert_tag_definition", "finish_worker">>

\* The match on the tool name of tools/call.
call_tool(tool_name, arguments, ps, now_ms, ts_ms) ==
    CASE tool_name = "query_project_todos" -> tool_query_project_todos(arguments, ps)
      [] tool_name = "query_recent_context" -> tool_query_recent_context(arguments, ps)
      [] tool_name = "query_task_details" -> tool_query_task_details(arguments, ps)
      [] tool_name = "read_asset_image" -> tool_read_asset_image(arguments)
      [] tool_name = "submit_task_report" ->
           tool_submit_task_report(arguments, ps, now_ms, ts_ms)
      [] tool_name = "query_tag_catalog" -> tool_query_tag_catalog(arguments, ps)
      [] tool_name = "upsert_tag_definition" ->
           tool_upsert_tag_definition(arguments, ps)
      [] tool_name = "finish_worker" ->
           tool_finish_worker(arguments, ps, now_ms)
      [] OTHER ->
           NoEffects(ToolError([fmt |-> "unknown_tool", tool_name |-> tool_name]))

\* A JSON value that is an id: null, or a number.
JsonNull == [type |-> "null"]

JsonNumber(n) == [type |-> "number", value |-> n]

JsonRpcResult(id, result) == [jsonrpc |-> "2.0", id |-> id, result |-> result]

\* An error object that does not carry the id of the request.
JsonRpcErrorWithoutId(id, code, method) ==
    [jsonrpc |-> "2.0", id |-> Some(JsonNull),
     error |-> [code |-> code, message |-> <<"Method not found", method>>]]

JsonRpcError(id, code, method) ==
    [jsonrpc |-> "2.0", id |-> id,
     error |-> [code |-> code, message |-> <<"Method not found", method>>]]

HttpResponse(status, json, effects) ==
    [status |-> status, json |-> json, effects |-> effects]

\* A handler that takes only an absent id for a notification.
handle_mcp_post_null_id_is_request(body, ps, now_ms, ts_ms) ==
    LET Called(eff) ==
          HttpResponse(200, Some(JsonRpcResult(body.id, eff.result)), eff)
    IN  IF body.id = None
        THEN HttpResponse(202, Some(JsonNull), NoEffects(None))
        ELSE IF body.method = "initialize"
        THEN HttpResponse(200, Some(JsonRpcResult(body.id, [serverInfo |-> "maple"])),
                          NoEffects(None))
        ELSE IF body.method = "ping"
        THEN HttpResponse(200, Some(JsonRpcResult(body.id, [empty |-> TRUE])),
                          NoEffects(None))
        ELSE IF body.method = "tools/list"
        THEN HttpResponse(200, Some(JsonRpcResult(body.id, [tools |-> tool_definitions])),
                          NoEffects(None))
        ELSE IF body.method = "tools/call"
        THEN Called(call_tool(AtomArg(body.params, "name"),
                              IF "arguments" \in DOMAIN body.params
                              THEN body.params.arguments ELSE [none |-> TRUE],
                              ps, now_ms, ts_ms))
        ELSE HttpResponse(200, Some(JsonRpcError(body.id, -32601, body.method)),
                          NoEffects(None))

\* body: [id |-> Option, method |-> string, params |-> [name, arguments]].
\* The answer, and what the handler did to the files and the event bus.
handle_mcp_post(body, ps, now_ms, ts_ms) ==
    LET Called(eff) ==
          HttpResponse(200, Some(JsonRpcResult(body.id, eff.result)), eff)
    IN  IF body.id = None \/ body.id = Some(JsonNull)
        THEN HttpResponse(202, Some(JsonNull), NoEffects(None))
        ELSE IF body.method = "initialize"
        THEN HttpResponse(200, Some(JsonRpcResult(body.id, [serverInfo |-> "maple"])),
                          NoEffects(None))
        ELSE IF body.method = "ping"
        THEN HttpResponse(200, Some(JsonRpcResult(body.id, [empty |-> TRUE])),
                          NoEffects(None))
        ELSE IF body.method = "tools/list"
        THEN HttpResponse(200, Some(JsonRpcResult(body.id, [tools |-> tool_definitions])),
                          NoEffects(None))
        ELSE IF body.method = "tools/call"
        THEN Called(call_tool(AtomArg(body.params, "name"),
                              IF "arguments" \in DOMAIN body.params
                              THEN body.params.arguments ELSE [none |-> TRUE],
                              ps, now_ms, ts_ms))
        ELSE HttpResponse(200, Some(JsonRpcError(body.id, -32601, body.method)),
                          NoEffects(None))

---------------------------------------------------------------------------
(* The server answering one request at a time *)

MaxClock == 2

MaxReports == 2

RECURSIVE SumLens(_)
SumLens(tasks) ==
    IF tasks = <<>> THEN 0 ELSE Len(Head(tasks).reports) + SumLens(Tail(tasks))

RECURSIVE TotalReports(_)
TotalReports(ps) ==
    IF ps = <<>> THEN 0 ELSE SumLens(Head(ps).tasks) + TotalReports(Tail(ps))

NoRequest == [id |-> None, method |-> "", params |-> [none |-> TRUE]]

NoResponse == [status |-> 0, json |-> None]

ToolsCall(tool_name, arguments) ==
    [id |-> Some(JsonNumber(1)), method |-> "tools/call",
     params |-> [name |-> tool_name, arguments |-> arguments]]

\* What answering `body` with `out` leaves behind: the document and the signal
\* file when the handler wrote them, the events it emitted, and the answer.
Respond(body, out) ==
    /\ projects' = IF IsSome(out.effects.write)
                   THEN write_state(projects, Unwrap(out.effects.write))
                   ELSE projects
    /\ signal' = IF IsSome(out.effects.signal) THEN out.effects.signal ELSE signal
    /\ events' = out.effects.events
    /\ request' = body
    /\ response' = [status |-> out.status, json |-> out.json]

\* POST /mcp with `body`, answered before the next request is taken.  The
\* handler reads the clock `waited` ms after the previous answer, and
\* submit_task_report reads it again, `lag` ms later, for the report id.
Answer(body, waited, lag) ==
    /\ clock + waited + lag <= MaxClock
    /\ clock' = clock + waited + lag
    /\ \E out \in {handle_mcp_post(body, read_state(projects),
                                     clock + waited, clock + waited + lag)} :
          Respond(body, out)

DemoName == <<"D","e","m","o">>

OtherName == <<"O","t","h","e","r">>

EmptyName == <<"E","m","p","t","y">>

\* The document of the scenario: Demo with tasks A (todo) and B (done), a
\* second project with one task in progress, and a project without tasks.
InitProjects ==
    <<Project("p1", DemoName, <<"C",":","\\","d","e","m","o">>,
              <<Task("A", "Task A", "todo", <<>>, 0, <<>>),
                Task("B", "Task B", "done", <<>>, 0, <<>>)>>, EmptyCatalog),
      Project("p2", OtherName, <<"/","s","r","v","/","o","t","h","e","r">>,
              <<Task("C", "Task C", "in_progress", <<>>, 0, <<>>)>>, EmptyCatalog),
      Project("p3", EmptyName, <<>>, <<>>, EmptyCatalog)>>

Statuses ==
    {"draft", "todo", "rework", "queued", "in_progress", "need_info", "done", "blocked"}

\* The project arguments: a name in another case, a part of a name, a name, and
\* a string no project matches.
ProjectQueries ==
    {<<"d","e","m","o">>, <<"O","t","h">>, EmptyName, <<"z","z">>}

FinishArgs ==
    {[project |-> q, summary |-> "all done"] : q \in ProjectQueries}

\* Reports on the tasks of Demo with every status label, a label outside the
\* vocabulary, and no status; and calls that resolve no project or no task.
SubmitArgs ==
    {[project |-> <<"d","e","m","o">>, task_id |-> t, report |-> "r1"] : t \in {"A", "B"}}
      \cup {[project |-> <<"d","e","m","o">>, task_id |-> t, report |-> "r1",
             status |-> st] : t \in {"A", "B"}, st \in Statuses \cup {"unlisted"}}
      \cup {[project |-> <<"z","z">>, task_id |-> "A", report |-> "r1"],
            [project |-> <<"d","e","m","o">>, task_id |-> "C", report |-> "r1",
             status |-> "done"]}

Init ==
    /\ projects = InitProjects
    /\ signal = None
    /\ events = <<>>
    /\ clock = 0
    /\ request = NoRequest
    /\ response = NoResponse
    /\ pc = <<>>
    /\ local = <<>>

FinishWorker ==
    \E a \in FinishArgs :
        /\ Answer(ToolsCall("finish_worker", a), 0, 0)
        /\ UNCHANGED <<pc, local>>

SubmitTaskReport ==
    \E a \in SubmitArgs :
        /\ TotalReports(projects) < MaxReports
        /\ Answer(ToolsCall("submit_task_report", a), 0, 0)
        /\ UNCHANGED <<pc, local>>

Next == FinishWorker \/ SubmitTaskReport

Spec == Init /\ [][Next]_vars
---------------------------------------------------------------------------
(* The completion gate: what finish_worker answers and what it touches *)

IsToolsCall(req, tool_name) ==
    req.method = "tools/call" /\ req.params.name = tool_name

\* The answer carries a JSON-RPC result (not a JSON-RPC error object).
HasResult(resp) ==
    resp.status = 200 /\ IsSome(resp.json) /\ "result" \in DOMAIN Unwrap(resp.json)

\* The tool result of the answer says isError: true.
Refused(resp) ==
    /\ HasResult(resp)
    /\ "isError" \in DOMAIN Unwrap(resp.json).result
    /\ Unwrap(resp.json).result.isError = TRUE

\* The tool result of the answer is a plain text block.
Accepted(resp) ==
    HasResult(resp) /\ "isError" \notin DOMAIN Unwrap(resp.json).result

ResultText(resp) == Unwrap(resp.json).result.content[1].text

AllIn(tasks, terminal) == \A j \in 1..Len(tasks) : tasks[j].status \in terminal

\* The project the last call names, as an index into the document (0: none).
Resolved(req, ps) ==
    LET Index(idx) == IF idx = None THEN 0 ELSE Unwrap(idx)
    IN  Index(find_project_index(ps, StrArg(req.params.arguments, "project")))

\* The last finish_worker call resolved a project, and was accepted exactly
\* when every task of that project had a status in `terminal`.
GateDecidesBy(terminal) ==
    IsToolsCall(request, "finish_worker") /\ Resolved(request, projects) # 0
        => (Accepted(response)
              <=> AllIn(projects[Resolved(request, projects)].tasks, terminal))

\* C1, as amended: for every project that resolves, finish_worker succeeds if
\* and only if every task of the resolved project has a status in the set
\* {draft, done, blocked, need_info} at the time of the call; a project with no
\* tasks is accepted, and the tasks of other projects do not matter.
C1_FinishIffAllTasksTerminalOrDraft ==
    GateDecidesBy({"draft", "done", "blocked", "need_info"})

\* C1, as stated: finish_worker succeeds if and only if every task of the
\* resolved project has a status in {done, blocked, need_info}.
C1_FinishIffAllTasksTerminal ==
    GateDecidesBy({"done", "blocked", "need_info"})

\* C1, the case: finish_worker on Demo is accepted while Demo holds a draft
\* task and another project holds a task in progress.
C1_Witness ==
    /\ IsToolsCall(request, "finish_worker")
    /\ Resolved(request, projects) = 1
    /\ Accepted(response)
    /\ \E j \in 1..Len(projects[1].tasks) : projects[1].tasks[j].status = "draft"
    /\ \E j \in 1..Len(projects[2].tasks) : projects[2].tasks[j].status = "in_progress"

\* C2: a finish_worker call leaves the document as it is; a refused call (tasks
\* unresolved, or no project resolved) writes no signal file and emits no
\* event; an accepted call writes the signal file for the resolved project and
\* emits one worker-finished event for it.
C2_FinishWritesSignalOnlyOnAccept ==
    [][IsToolsCall(request', "finish_worker") =>
         /\ projects' = projects
         /\ Refused(response') \/ Accepted(response')
         /\ Refused(response') => signal' = signal /\ events' = <<>>
         /\ Accepted(response') =>
              /\ Resolved(request', projects) # 0
              /\ signal' = Some([project |-> projects[Resolved(request', projects)].name,
                                 summary |-> request'.params.arguments.summary,
                                 timestamp |-> clock', action |-> "finish"])
              /\ events' = <<[name |-> "maple://worker-finished",
                              project |-> projects[Resolved(request', projects)].name,
                              summary |-> request'.params.arguments.summary]>>
      ]_vars

\* C2, the case: a finish_worker call on Demo was refused, and the signal file
\* is still the one an earlier accepted call wrote for another project.
C2_Witness ==
    /\ IsToolsCall(request, "finish_worker")
    /\ Resolved(request, projects) = 1
    /\ Refused(response)
    /\ events = <<>>
    /\ IsSome(signal)
    /\ Unwrap(signal).project # projects[1].name

\* The indices of the tasks whose status is outside `terminal`.
OpenTasks(tasks, terminal) == {j \in 1..Len(tasks) : tasks[j].status \notin terminal}

\* The k-th smallest element of a set of numbers.
Nth(S, k) == CHOOSE x \in S : Cardinality({y \in S : y < x}) = k - 1

\* `lines` itemizes the tasks at the indices `open`, each once, in task order.
Itemizes(lines, tasks, open) ==
    /\ Len(lines) = Cardinality(open)
    /\ \A k \in 1..Len(lines) :
         /\ lines[k].index = k
         /\ lines[k].id = tasks[Nth(open, k)].id
         /\ lines[k].title = tasks[Nth(open, k)].title
         /\ lines[k].status = tasks[Nth(open, k)].status

\* C3: when finish_worker refuses a resolved project, the answer is a JSON-RPC
\* result whose tool result has isError true; its list names exactly the tasks
\* of the resolved project whose status is non-terminal, each once, in task
\* order, and the count it states is the number of listed tasks.
C3_RefusalItemizesOpenTasks ==
    /\ IsToolsCall(request, "finish_worker") => HasResult(response)
    /\ IsToolsCall(request, "finish_worker") /\ Resolved(request, projects) # 0
         /\ ~Accepted(response)
         => /\ Refused(response)
            /\ "error" \notin DOMAIN Unwrap(response.json)
            /\ ResultText(response).fmt = "unresolved"
            /\ ResultText(response).project = projects[Resolved(request, projects)].name
            /\ ResultText(response).count = Len(ResultText(response).lines)
            /\ Itemizes(ResultText(response).lines,
                        projects[Resolved(request, projects)].tasks,
                        OpenTasks(projects[Resolved(request, projects)].tasks,
                                  {"draft", "done", "blocked", "need_info"}))

\* C3, the case: a refusal that lists two tasks, A before B.
C3_Witness ==
    /\ IsToolsCall(request, "finish_worker")
    /\ Refused(response)
    /\ ResultText(response).fmt = "unresolved"
    /\ ResultText(response).count = 2
    /\ ResultText(response).lines[1].id = "A"
    /\ ResultText(response).lines[2].id = "B"

---------------------------------------------------------------------------
(* The completion gate across retries.  `local` is the history of the
   answers of finish_worker so far, oldest first. *)

MaxHistory == 4

MaxGateReports == 3

GateFinishArgs == [project |-> <<"d","e","m","o">>, summary |-> "all done"]

GateSubmitArgs ==
    {[project |-> <<"d","e","m","o">>, task_id |-> t, report |-> "r1", status |-> st] :
        t \in {"A", "B"}, st \in {"done", "todo"}}

Outcome(resp) == IF Accepted(resp) THEN "accepted" ELSE "refused"

GateFinish ==
    /\ Len(local) < MaxHistory
    /\ Answer(ToolsCall("finish_worker", GateFinishArgs), 0, 0)
    /\ local' = Append(local, Outcome(response'))
    /\ UNCHANGED pc

GateSubmit ==
    \E a \in GateSubmitArgs :
        /\ TotalReports(projects) < MaxGateReports
        /\ Answer(ToolsCall("submit_task_report", a), 0, 0)
        /\ UNCHANGED <<pc, local>>

NextGate == GateFinish \/ GateSubmit

SpecGate == Init /\ [][NextGate]_vars

\* C4: the gate keeps no memory.  Whatever finish_worker answered before, its
\* last answer is an acceptance exactly when every task of the project is
\* resolved now: after a refusal, a retry succeeds once submit_task_report has
\* set the offending tasks to done, refuses again once a task is moved back,
\* and succeeds again once it is restored.
C4_GateKeepsNoMemory ==
    IsToolsCall(request, "finish_worker")
      => /\ local # <<>>
         /\ local[Len(local)] = Outcome(response)
         /\ Accepted(response)
              <=> AllIn(projects[1].tasks, {"draft", "done", "blocked", "need_info"})
         /\ (\A j \in 1..Len(projects[1].tasks) : projects[1].tasks[j].status = "done")
              => Accepted(response)

\* C4, the case: refused, accepted after the fix, refused after the task was
\* moved back, accepted after it was restored.
C4_Witness ==
    /\ IsToolsCall(request, "finish_worker")
    /\ local = <<"refused", "accepted", "refused", "accepted">>
    /\ Accepted(response)

---------------------------------------------------------------------------
(* Reports over time: submit_task_report while the clock advances *)

UiTag == <<"u","i">>

\* Reports with and without a status, with and without tags (one of them with
\* an element that is no string), and calls that resolve no task or project.
ReportArgs ==
    {[project |-> <<"d","e","m","o">>, task_id |-> "A", report |-> "r1"],
     [project |-> <<"d","e","m","o">>, task_id |-> "A", report |-> "r2",
      status |-> "done"],
     [project |-> <<"d","e","m","o">>, task_id |-> "A", report |-> "r1",
      tags |-> <<[str |-> UiTag]>>],
     [project |-> <<"d","e","m","o">>, task_id |-> "B", report |-> "r2",
      status |-> "todo", tags |-> <<[num |-> 7], [str |-> UiTag]>>],
     [project |-> <<"d","e","m","o">>, task_id |-> "C", report |-> "r1"],
     [project |-> <<"z","z">>, task_id |-> "A", report |-> "r1"]}

\* Time passes while no request is being answered.
Tick ==
    /\ clock < MaxClock
    /\ clock' = clock + 1
    /\ events' = <<>>
    /\ request' = NoRequest
    /\ response' = NoResponse
    /\ UNCHANGED <<projects, signal, pc, local>>

\* submit_task_report; the clock may advance between the two places where the
\* handler reads it.
SubmitTaskReportAt ==
    \E a \in ReportArgs, lag \in {0, 1} :
        /\ TotalReports(projects) < MaxReports
        /\ Answer(ToolsCall("submit_task_report", a), 0, lag)
        /\ UNCHANGED <<pc, local>>

NextReports == Tick \/ SubmitTaskReportAt

SpecReports == Init /\ [][NextReports]_vars

IsPrefix(s, t) == Len(s) <= Len(t) /\ SubSeq(t, 1, Len(s)) = s

\* The task the call names, as <<project index, task index>>.
Target(req, ps) ==
    <<Resolved(req, ps),
      CHOOSE j \in 1..Len(ps[Resolved(req, ps)].tasks) :
          ps[Resolved(req, ps)].tasks[j].id = req.params.arguments.task_id>>

\* C5: the reports of a task only grow.  Every step keeps every stored report
\* in its place, unmodified; a successful submit_task_report appends exactly
\* one report to the task it names, with author "mcp" and the report argument
\* as content, and leaves the reports of every other task as they are.
C5_ReportsAppendOnly ==
    [][/\ \A i \in 1..Len(projects) : \A j \in 1..Len(projects[i].tasks) :
            IsPrefix(projects[i].tasks[j].reports, projects'[i].tasks[j].reports)
       /\ IsToolsCall(request', "submit_task_report") /\ Accepted(response') =>
            \A i \in 1..Len(projects) : \A j \in 1..Len(projects[i].tasks) :
               IF <<i, j>> = Target(request', projects)
               THEN /\ Len(projects'[i].tasks[j].reports)
                         = Len(projects[i].tasks[j].reports) + 1
                    /\ projects'[i].tasks[j].reports[Len(projects'[i].tasks[j].reports)].author
                         = "mcp"
                    /\ projects'[i].tasks[j].reports[Len(projects'[i].tasks[j].reports)].content
                         = request'.params.arguments.report
               ELSE projects'[i].tasks[j].reports = projects[i].tasks[j].reports
      ]_vars

\* C5, the case: task A holds the report "r1" followed by the report "r2",
\* the second just submitted.
C5_Witness ==
    /\ IsToolsCall(request, "submit_task_report")
    /\ Accepted(response)
    /\ request.params.arguments.task_id = "A"
    /\ Len(projects[1].tasks[1].reports) = 2
    /\ projects[1].tasks[1].reports[1].content = "r1"
    /\ projects[1].tasks[1].reports[2].content = "r2"

\* C6: updatedAt of a task never decreases, and a successful submit_task_report
\* sets it to the time of the call (the time the handler read, which is also
\* the creation time of the report), with or without a status or tags.
C6_UpdatedAtFollowsTheClock ==
    [][/\ \A i \in 1..Len(projects) : \A j \in 1..Len(projects[i].tasks) :
            projects'[i].tasks[j].updated_at >= projects[i].tasks[j].updated_at
       /\ IsToolsCall(request', "submit_task_report") /\ Accepted(response') =>
            LET At(t) ==
                  /\ clock <= t.updated_at
                  /\ t.updated_at <= clock'
                  /\ t.updated_at = t.reports[Len(t.reports)].created_at
            IN  At(projects'[Target(request', projects)[1]]
                      .tasks[Target(request', projects)[2]])
      ]_vars

\* C6, the case: a report without status and without tags was submitted for
\* task A after the clock had advanced, and updatedAt of A is that time.
C6_Witness ==
    /\ IsToolsCall(request, "submit_task_report")
    /\ Accepted(response)
    /\ request.params.arguments.task_id = "A"
    /\ "status" \notin DOMAIN request.params.arguments
    /\ "tags" \notin DOMAIN request.params.arguments
    /\ projects[1].tasks[1].updated_at > 0
    /\ projects[1].tasks[1].updated_at = clock

---------------------------------------------------------------------------
(* Two submit_task_report calls served at the same time.  The server runs each
   request as a task of its own; a handler reads the whole document, changes
   its copy and writes the whole document.  pc[h] is where handler h stands,
   local[h] what it holds: its request, the document it read, its answer, and
   its place in the order of the writes. *)

Handlers == {1, 2}

RaceArgs(h) ==
    {[project |-> <<"d","e","m","o">>, task_id |-> t,
      report |-> (IF h = 1 THEN "r1" ELSE "r2"), status |-> "blocked"] :
        t \in {"A", "B", "C"}}
      \cup {[project |-> <<"d","e","m","o">>, task_id |-> t,
             report |-> (IF h = 1 THEN "r1" ELSE "r2")] : t \in {"A", "B"}}

Idle == [body |-> NoRequest, ps |-> <<>>, answer |-> NoResponse, order |-> 0]

InitRace ==
    /\ projects = InitProjects
    /\ signal = None
    /\ events = <<>>
    /\ clock = 0
    /\ request = NoRequest
    /\ response = NoResponse
    /\ pc = [h \in Handlers |-> "idle"]
    /\ local = [h \in Handlers |-> Idle]

\* Handler h takes a request and reads the document (read_state).
RaceRead(h) ==
    /\ pc[h] = "idle"
    /\ \E a \in RaceArgs(h) :
         local' = [local EXCEPT ![h] = [Idle EXCEPT
                       !.body = ToolsCall("submit_task_report", a),
                       !.ps   = read_state(projects)]]
    /\ pc' = [pc EXCEPT ![h] = "read"]
    /\ UNCHANGED <<projects, signal, events, clock, request, response>>

\* Handler h changes its copy, writes it (write_state), emits and answers.
RaceWrite(h) ==
    /\ pc[h] = "read"
    /\ Respond(local[h].body, handle_mcp_post(local[h].body, local[h].ps, clock, clock))
    /\ local' = [local EXCEPT
                   ![h].answer = response',
                   ![h].order  = 1 + Cardinality({g \in Handlers : pc[g] = "done"})]
    /\ pc' = [pc EXCEPT ![h] = "done"]
    /\ UNCHANGED clock

NextRace == \E h \in Handlers : RaceRead(h) \/ RaceWrite(h)

SpecRace == InitRace /\ [][NextRace]_vars

\* The task of document `ps` that the request of handler h names.
NamedTask(h, ps) ==
    ps[Target(local[h].body, ps)[1]].tasks[Target(local[h].body, ps)[2]]

\* Document `ps` holds what handler h reported: its report, and its status.
Holds(ps, h) ==
    /\ \E k \in 1..Len(NamedTask(h, ps).reports) :
          NamedTask(h, ps).reports[k].content = local[h].body.params.arguments.report
    /\ "status" \in DOMAIN local[h].body.params.arguments
          => NamedTask(h, ps).status = local[h].body.params.arguments.status

\* Both handlers have answered with success, for two different tasks.
BothSucceeded ==
    /\ \A h \in Handlers : pc[h] = "done" /\ Accepted(local[h].answer)
    /\ local[1].body.params.arguments.task_id # local[2].body.params.arguments.task_id

\* C7: the store has no lock.  When two submit_task_report calls for different
\* tasks both answer success, the document on the disk is missing the report
\* (and the status) of one of them exactly when that one wrote first and the
\* other had read the document before that write; the other's update is there.
C7_LostUpdateWhenCallsOverlap ==
    BothSucceeded =>
        \A h \in Handlers : \A g \in Handlers \ {h} :
            /\ ~Holds(projects, h)
                 <=> (local[h].order < local[g].order /\ ~Holds(local[g].ps, h))
            /\ local[h].order > local[g].order => Holds(projects, h)

\* C7, the case: both calls answered success, and the document is missing the
\* report of the first call and still shows the old status of its task.
C7_Witness ==
    /\ BothSucceeded
    /\ local[1].body.params.arguments.task_id = "A"
    /\ "status" \in DOMAIN local[1].body.params.arguments
    /\ projects[1].tasks[1].reports = <<>>
    /\ projects[1].tasks[1].status = "todo"
    /\ Holds(projects, 2)

---------------------------------------------------------------------------
(* The tag catalog: upsert_tag_definition and the inference of
   submit_task_report.  `local` is the catalog of Demo as the last handler
   read it. *)

Red == <<"r","e","d">>

Blue == <<"b","l","u","e">>

StarIcon == <<"M","i","n","g","C","u","t","e",":","S","t","a","r">>

\* Definitions for the tag ui (also written " UI "), field by field and two at
\* a time, a blank field, and calls that are refused.
UpsertArgs ==
    {[project |-> <<"d","e","m","o">>, tag |-> UiTag, color |-> Red],
     [project |-> <<"d","e","m","o">>, tag |-> <<" ","U","I"," ">>,
      color |-> <<" ">> \o Blue, icon |-> StarIcon],
     [project |-> <<"d","e","m","o">>, tag |-> UiTag, label_zh |-> <<"cjk:jie","cjk:mian">>],
     [project |-> <<"d","e","m","o">>, tag |-> UiTag, label_en |-> <<"F","r","o","n","t">>,
      label_zh |-> <<" "," ">>],
     [project |-> <<"d","e","m","o">>, tag |-> UiTag, icon |-> <<"s","t","a","r">>],
     [project |-> <<"d","e","m","o">>, tag |-> <<" ">>, color |-> Red],
     [project |-> <<"z","z">>, tag |-> UiTag, color |-> Red]}

\* Reports that tag task A: with ui, with " UI " and a tag without preset, with
\* a tag in CJK characters; and a report without tags.
TaggedArgs ==
    {[project |-> <<"d","e","m","o">>, task_id |-> "A", report |-> "r1",
      tags |-> <<[str |-> UiTag]>>],
     [project |-> <<"d","e","m","o">>, task_id |-> "A", report |-> "r1",
      tags |-> <<[str |-> <<" ","U","I"," ">>], [str |-> <<"Z","z">>]>>],
     [project |-> <<"d","e","m","o">>, task_id |-> "A", report |-> "r1",
      tags |-> <<[str |-> <<"cjk:wen">>]>>],
     [project |-> <<"d","e","m","o">>, task_id |-> "A", report |-> "r1"]}

InitTags ==
    /\ projects = InitProjects
    /\ signal = None
    /\ events = <<>>
    /\ clock = 0
    /\ request = NoRequest
    /\ response = NoResponse
    /\ pc = <<>>
    /\ local = InitProjects[1].tag_catalog

UpsertTagDefinition ==
    \E a \in UpsertArgs :
        /\ Answer(ToolsCall("upsert_tag_definition", a), 0, 0)
        /\ local' = projects[1].tag_catalog
        /\ UNCHANGED pc

SubmitTaggedReport ==
    \E a \in TaggedArgs :
        /\ TotalReports(projects) < MaxReports
        /\ Answer(ToolsCall("submit_task_report", a), 0, 0)
        /\ local' = projects[1].tag_catalog
        /\ UNCHANGED pc

NextTags == UpsertTagDefinition \/ SubmitTaggedReport

SpecTags == InitTags /\ [][NextTags]_vars

\* The four fields of a catalog entry.
Fields == {"color", "icon", "zh", "en"}

\* Field f of the entry of `tag_id` in `catalog`: None when the entry is absent,
\* the label is absent, or the field is null.
Field(catalog, tag_id, f) ==
    IF tag_id \notin DOMAIN catalog THEN None
    ELSE IF f = "color" THEN catalog[tag_id].color
    ELSE IF f = "icon" THEN catalog[tag_id].icon
    ELSE IF catalog[tag_id].label = None THEN None
    ELSE IF f = "zh" THEN Unwrap(catalog[tag_id].label).zh
    ELSE Unwrap(catalog[tag_id].label).en

\* The value the call supplies for field f: None when the argument is absent or
\* blank, else the argument without the surrounding whitespace.
Supplied(args, f) ==
    LET Key(key) ==
          IF key \notin DOMAIN args THEN None
          ELSE IF \A k \in 1..Len(args[key]) : args[key][k] \in Whitespace THEN None
          ELSE Some(trim(args[key]))
    IN  Key(IF f = "zh" THEN "label_zh" ELSE IF f = "en" THEN "label_en" ELSE f)

\* Every field that `before` has set has the same value in `after`.
KeepsSetFields(before, after) ==
    \A tag_id \in DOMAIN before : \A f \in Fields :
        IsSome(Field(before, tag_id, f))
            => Field(after, tag_id, f) = Field(before, tag_id, f)

TagIds(t) == {to_lowercase(trim(t.tags[k])) : k \in 1..Len(t.tags)} \ {<<>>}

\* C9: the inference of submit_task_report never clears or overwrites a field
\* that is set.  Across a successful call every entry stays, every field that
\* was set keeps its value, and the new entries are entries of the tags of the
\* reported task.
C9_InferenceKeepsSetFields ==
    [][IsToolsCall(request', "submit_task_report") /\ Accepted(response') =>
         /\ DOMAIN projects[1].tag_catalog \subseteq DOMAIN projects'[1].tag_catalog
         /\ KeepsSetFields(projects[1].tag_catalog, projects'[1].tag_catalog)
         /\ DOMAIN projects'[1].tag_catalog \subseteq
              DOMAIN projects[1].tag_catalog
                \cup TagIds(projects'[Target(request', projects)[1]]
                                .tasks[Target(request', projects)[2]])
      ]_vars

\* C9, the case: ui had the icon and the color of an upsert and no English
\* label; a report tagged ui filled the label and left the icon and the color.
C9_Witness ==
    /\ IsToolsCall(request, "submit_task_report")
    /\ Accepted(response)
    /\ Field(local, UiTag, "icon") = Some(to_lowercase(StarIcon))
    /\ Field(local, UiTag, "color") = Some(Blue)
    /\ Field(local, UiTag, "en") = None
    /\ Field(projects[1].tag_catalog, UiTag, "icon") = Some(to_lowercase(StarIcon))
    /\ Field(projects[1].tag_catalog, UiTag, "color") = Some(Blue)
    /\ Field(projects[1].tag_catalog, UiTag, "en") = Some(<<"U","I">>)

---------------------------------------------------------------------------
(* Project lookup on its own: find_project_index applied to a document and a
   query.  `local` is the query and what the lookup returned for it. *)

NumProjects == 2

\* Names and directories: two names equal up to case and blanks, names that
\* hold another name, a name that holds a path, a blank name; the same
\* location written as a Windows path and as a WSL path, a plain path, none.
ProjectPool ==
    {Project("a", <<"A","b">>, <<"C",":","\\","p">>, <<>>, EmptyCatalog),
     Project("b", <<" ","a","b"," ">>, <<"/","m","n","t","/","c","/","p","/">>,
             <<>>, EmptyCatalog),
     Project("c", <<"x","A","b","y">>, <<"/","x","/","a","b">>, <<>>, EmptyCatalog),
     Project("d", <<"z","c",":","/","p">>, <<>>, <<>>, EmptyCatalog),
     Project("e", <<" "," ">>, <<"/","X","/","A","B","/">>, <<>>, EmptyCatalog),
     Project("f", <<"/","x","/","a","b">>, <<"D",":">>, <<>>, EmptyCatalog)}

Queries ==
    {<<"a","b">>, <<" ","A","B"," ">>, <<"b">>, <<"q">>, <<>>, <<" "," ">>,
     <<"c",":","/","p">>, <<"C",":","\\","p","\\">>, <<"/","m","n","t","/","c","/","p">>,
     <<"m","n","t","/","C","/","p">>, <<"/","x","/","a","b">>, <<"d",":">>}

\* The sequences over S of length n.
SeqsOfLen(S, n) == [1..n -> S]

InitFind ==
    /\ projects \in UNION {SeqsOfLen(ProjectPool, n) : n \in 0..NumProjects}
    /\ local \in {[query |-> q, returned |-> FALSE, found |-> None] : q \in Queries}
    /\ signal = None
    /\ events = <<>>
    /\ clock = 0
    /\ request = NoRequest
    /\ response = NoResponse
    /\ pc = <<>>

FindProject ==
    /\ ~local.returned
    /\ local' = [local EXCEPT
                   !.returned = TRUE,
                   !.found = find_project_index(read_state(projects), local.query)]
    /\ UNCHANGED <<projects, signal, events, clock, request, response, pc>>

NextFind == FindProject

SpecFind == InitFind /\ [][NextFind]_vars

\* Rule 1: the names equal to the query, case and surrounding blanks aside.
ExactMatches(ps, query) ==
    {i \in 1..Len(ps) : to_lowercase(trim(ps[i].name)) = to_lowercase(trim(query))}

\* Rule 2: when the query looks like a path, the directories that denote the
\* location the query denotes.
DirectoryMatches(ps, query) ==
    {i \in 1..Len(ps) :
        /\ is_path_like(query)
        /\ normalize_directory_key(query) # None
        /\ normalize_directory_key(ps[i].directory) = normalize_directory_key(query)}

\* Rule 3: the names that hold the query, case aside.
SubstringMatches(ps, query) ==
    {i \in 1..Len(ps) : contains(to_lowercase(ps[i].name), to_lowercase(trim(query)))}

\* `found` is the lowest index of the first of the three rules that matches
\* some project, and None when no rule matches.
FirstRuleLowestIndex(ps, query, found) ==
    LET Lowest(hits) ==
          /\ found # None
          /\ Unwrap(found) \in hits
          /\ \A i \in hits : Unwrap(found) <= i
    IN  IF ExactMatches(ps, query) # {} THEN Lowest(ExactMatches(ps, query))
        ELSE IF DirectoryMatches(ps, query) # {} THEN Lowest(DirectoryMatches(ps, query))
        ELSE IF SubstringMatches(ps, query) # {} THEN Lowest(SubstringMatches(ps, query))
        ELSE found = None

IsBlank(query) == \A k \in 1..Len(query) : query[k] \in Whitespace

\* C10, as amended: a query that is blank resolves to no project; any other
\* query is resolved by the first applicable rule in the order (1) exact name,
\* case-insensitive, (2) directory, when the query looks like a path,
\* (3) substring of the name, case-insensitive; an earlier rule that matches
\* wins over a later one, and within a rule the lowest index is returned.
C10_FirstRuleWinsUnlessBlank ==
    local.returned =>
        IF IsBlank(local.query) THEN local.found = None
        ELSE FirstRuleLowestIndex(projects, local.query, local.found)

\* C10, as stated: every query is resolved by the first applicable rule, and
\* within the rule by the lowest index.
C10_FirstRuleWins ==
    local.returned =>
        FirstRuleLowestIndex(projects, local.query, local.found)

\* C10, the case: the directory rule returned the second project although the
\* substring rule matches the first.
C10_Witness ==
    /\ local.returned
    /\ local.found = Some(2)
    /\ ExactMatches(projects, local.query) = {}
    /\ 2 \in DirectoryMatches(projects, local.query)
    /\ 1 \in SubstringMatches(projects, local.query)

---------------------------------------------------------------------------
(* Directory matching across the two spellings of one folder: the document
   holds one project per folder, each directory written in some spelling,
   and the query is a spelling of one of the folders. *)

\* A folder on a Windows drive: the drive letter and the segments below it,
\* each in the letter cases it may be written in.
FolderP ==
    [drive |-> {"c", "C"},
     segs  |-> {<< <<"A","b">>, <<"p">> >>, << <<"a","B">>, <<"P">> >>}]

\* The parent of FolderP.
FolderQ ==
    [drive |-> {"c", "C"},
     segs  |-> {<< <<"A","b">> >>, << <<"a","B">> >>}]

\* FolderP's path on another drive.
FolderR ==
    [drive |-> {"d", "D"},
     segs  |-> {<< <<"A","b">>, <<"p">> >>, << <<"a","B">>, <<"P">> >>}]

Folders == {FolderP, FolderQ, FolderR}

RECURSIVE Join(_, _)
Join(segs, sep) ==
    IF segs = <<>> THEN <<>>
    ELSE IF Len(segs) = 1 THEN segs[1]
    ELSE segs[1] \o <<sep>> \o Join(Tail(segs), sep)

\* <Drive>:\<rest>, with either separator and any trailing separators.
WindowsSpellings(f) ==
    {<<d, ":", sep>> \o Join(s, sep) \o trail :
        d \in f.drive, s \in f.segs, sep \in {"\\", "/"},
        trail \in {<<>>, <<"\\">>, <<"/">>, <<"/", "\\">>}}

\* /mnt/<drive>/<rest>, with any trailing separators.
WslSpellings(f) ==
    {<<"/","m","n","t","/", d, "/">> \o Join(s, "/") \o trail :
        d \in f.drive, s \in f.segs, trail \in {<<>>, <<"/">>, <<"/", "/">>}}

Spellings(f) == WindowsSpellings(f) \cup WslSpellings(f)

\* The name of the third project is itself a spelling of FolderP.
DirProjects(dir) ==
    <<Project("p", <<"p","1">>, dir, <<>>, EmptyCatalog),
      Project("q", <<"p","2">>, <<"/","m","n","t","/","c","/","A","b","/">>,
              <<>>, EmptyCatalog),
      Project("r", <<"/","m","n","t","/","c","/","a","b","/","p">>,
              <<"D",":","\\","A","b","\\","p">>, <<>>, EmptyCatalog)>>

Rotations(ps) ==
    {[i \in 1..Len(ps) |-> ps[((i + k - 1) % Len(ps)) + 1]] : k \in 0..(Len(ps) - 1)}

InitDirs ==
    /\ projects \in UNION {Rotations(DirProjects(dir)) : dir \in Spellings(FolderP)}
    /\ local \in {[query |-> q, returned |-> FALSE, found |-> None] :
                    q \in UNION {Spellings(f) : f \in Folders}}
    /\ signal = None
    /\ events = <<>>
    /\ clock = 0
    /\ request = NoRequest
    /\ response = NoResponse
    /\ pc = <<>>

FindProjectByDirectory ==
    /\ ~local.returned
    /\ local' = [local EXCEPT
                   !.returned = TRUE,
                   !.found = find_project_index(read_state(projects), local.query)]
    /\ UNCHANGED <<projects, signal, events, clock, request, response, pc>>

NextDirs == FindProjectByDirectory

SpecDirs == InitDirs /\ [][NextDirs]_vars

\* C11: when no project name equals the query, a query that spells a folder
\* as a WSL path or as a Windows drive path resolves to the project whose
\* directory spells the same folder, in either spelling and whatever the
\* letter case, the separators and the trailing separators of the two.
C11_SameFolderEitherSpelling ==
    (local.returned /\ ExactMatches(projects, local.query) = {}) =>
        \A f \in Folders :
            local.query \in Spellings(f) =>
                /\ local.found # None
                /\ projects[Unwrap(local.found)].directory \in Spellings(f)

\* C11, the case: a WSL query in one letter case with a trailing separator
\* found the second project, whose directory is the Windows spelling.
C11_Witness ==
    /\ local.returned
    /\ local.query = <<"/","m","n","t","/","C","/","a","B","/","P","/">>
    /\ local.found = Some(2)
    /\ projects[2].directory = <<"c",":","\\","A","b","\\","p">>
---------------------------------------------------------------------------
(* POST /mcp with every kind of body: notifications, the four methods, other
   methods, every tool of the catalog and names that are no tool. *)

JsonString(s) == [type |-> "string", text |-> s]

\* The ids of requests that are answered.
RequestIds == {JsonNumber(1), JsonString("a")}

\* The ids of notifications: no id, and the id null.
NotificationIds == {None, Some(JsonNull)}

OtherMethods == {"notifications/initialized", "unknown_method", "tools/Call", ""}

\* Demo holds a task with a report and a tag definition; the second project
\* has a task in progress; the third has no tasks.
McpProjects ==
    <<Project("p1", DemoName, <<"C",":","\\","d","e","m","o">>,
              <<Task("A", "Task A", "todo", <<>>, 0,
                     <<TaskReport(<<"report", 0>>, "mcp", "r2", 0)>>),
                Task("B", "Task B", "done", <<>>, 0, <<>>)>>,
              CatalogPut(EmptyCatalog, <<"u","i">>,
                         [color |-> Some(<<"r","e","d">>), icon |-> None, label |-> None])),
      Project("p2", OtherName, <<"/","s","r","v","/","o","t","h","e","r">>,
              <<Task("C", "Task C", "in_progress", <<>>, 0, <<>>)>>, EmptyCatalog),
      Project("p3", EmptyName, <<>>, <<>>, EmptyCatalog)>>

\* The project arguments: one that resolves, one that resolves nothing, a
\* blank one.
McpProjectQueries == {<<"d","e","m","o">>, <<"z","z">>, <<" ">>}

ProjectArgs == {[project |-> q] : q \in McpProjectQueries}

\* A task of the project, a task of another project, no project, no task id.
TaskArgs ==
    {[project |-> <<"d","e","m","o">>, task_id |-> t] : t \in {"A", "C"}}
      \cup {[project |-> <<"z","z">>, task_id |-> "A"], [project |-> <<"d","e","m","o">>]}

RecentArgs ==
    {[project |-> <<"d","e","m","o">>], [project |-> <<"z","z">>],
     [project |-> <<"d","e","m","o">>, keyword |-> <<"R","2">>],
     [keyword |-> <<"f","i","x">>, limit |-> 0],
     [keyword |-> <<"q">>]}

AssetArgs ==
    {[file_name |-> <<"hash:1", ".", "p","n","g">>],
     [file_name |-> <<"a","s","s","e","t",":","/","/","hash:2", ".", "P","N","G">>],
     [url |-> <<"m","a","p","l","e",":","/","/","a","s","s","e","t","/","hash:2", ".", "t","x","t">>],
     [url |-> <<"hash:1", ".", "g","i","f">>],
     [file_name |-> <<"x",".","p","n","g">>]}

McpSubmitArgs ==
    {[project |-> q, task_id |-> "A", report |-> "r1"] : q \in McpProjectQueries}
      \cup {[project |-> <<"d","e","m","o">>, task_id |-> "A", report |-> "r1",
             status |-> "done"],
            [project |-> <<"d","e","m","o">>, task_id |-> "C", report |-> "r1"],
            [report |-> "r1"]}

\* Upserts that resolve no project, and upserts that are refused before the
\* project is looked up.
McpUpsertArgs ==
    {[project |-> q, tag |-> <<"U","i">>, color |-> <<"b","l","u","e">>] :
        q \in McpProjectQueries \ {<<"d","e","m","o">>}}
      \cup {[project |-> <<"z","z">>, tag |-> <<" ">>],
            [project |-> <<"z","z">>, tag |-> <<"u","i">>, icon |-> <<"x">>],
            [tag |-> <<"u","i">>]}

McpFinishArgs == {a @@ [summary |-> "all done"] : a \in ProjectArgs}

\* Names that are no tool: another spelling of a tool, a name of no tool, and
\* no name.
UnknownToolNames == {"Finish_Worker", "list_projects", ""}

\* params of tools/call, with the arguments or without them.
CallParams(tool_name, pool) ==
    {[name |-> tool_name, arguments |-> a] : a \in pool} \cup {[name |-> tool_name]}

\* The params of the tools/call notifications: calls that would succeed, of
\* the three tools that write and of a tool that reads, a call of no tool,
\* and no params.
NotifiedCallParams ==
    {[name |-> "submit_task_report",
      arguments |-> [project |-> <<"d","e","m","o">>, task_id |-> "A", report |-> "r1",
                     status |-> "done"]],
     [name |-> "upsert_tag_definition",
      arguments |-> [project |-> <<"d","e","m","o">>, tag |-> <<"n","e","w">>]],
     [name |-> "finish_worker", arguments |-> [project |-> EmptyName]],
     [name |-> "query_project_todos", arguments |-> [project |-> <<"d","e","m","o">>]],
     [name |-> "list_projects"]}

Body(id, method, params) == [id |-> id, method |-> method, params |-> params]

InitMcp ==
    /\ projects = McpProjects
    /\ signal = None
    /\ events = <<>>
    /\ clock = 0
    /\ request = NoRequest
    /\ response = NoResponse
    /\ pc = <<>>
    /\ local = <<>>

\* Each action is one request, answered before the next is taken.
Notification ==
    \E id \in NotificationIds :
        \E body \in {Body(id, method, [none |-> TRUE]) :
                       method \in {"initialize", "unknown_method"}}
                    \cup {Body(id, "tools/call", params) : params \in NotifiedCallParams} :
            /\ Answer(body, 0, 0)
            /\ UNCHANGED <<pc, local>>

Initialize ==
    \E id \in RequestIds :
        /\ Answer(Body(Some(id), "initialize", [none |-> TRUE]), 0, 0)
        /\ UNCHANGED <<pc, local>>

Ping ==
    \E id \in {JsonNumber(1)} :
        /\ Answer(Body(Some(id), "ping", [none |-> TRUE]), 0, 0)
        /\ UNCHANGED <<pc, local>>

ToolsList ==
    \E id \in {JsonNumber(1)} :
        /\ Answer(Body(Some(id), "tools/list", [none |-> TRUE]), 0, 0)
        /\ UNCHANGED <<pc, local>>

OtherMethod ==
    \E id \in RequestIds :
      \E body \in {Body(Some(JsonNumber(1)), method, [none |-> TRUE]) :
                     method \in OtherMethods}
                \cup {Body(Some(id), "unknown_method",
                           [name |-> "finish_worker",
                            arguments |-> [project |-> EmptyName]])} :
        /\ Answer(body, 0, 0)
        /\ UNCHANGED <<pc, local>>

\* The params of the tools/call requests: every tool of the catalog with its
\* arguments, names that are no tool, and no params.
AllCallParams ==
    CallParams("query_project_todos", ProjectArgs)
      \cup CallParams("query_recent_context", RecentArgs)
      \cup CallParams("query_task_details", TaskArgs)
      \cup CallParams("read_asset_image", AssetArgs)
      \cup CallParams("submit_task_report", McpSubmitArgs)
      \cup CallParams("query_tag_catalog", ProjectArgs)
      \cup CallParams("upsert_tag_definition", McpUpsertArgs)
      \cup CallParams("finish_worker", McpFinishArgs)
      \cup {[name |-> n, arguments |-> [project |-> <<"d","e","m","o">>]] :
               n \in UnknownToolNames}
      \cup {[name |-> "list_projects"], [none |-> TRUE]}

ToolsCallRequest ==
    \E id \in {JsonNumber(1)}, params \in AllCallParams :
        /\ ("name" \in DOMAIN params /\ params.name = "submit_task_report")
              => TotalReports(projects) < MaxReports
        /\ Answer(Body(Some(id), "tools/call", params), 0, 0)
        /\ UNCHANGED <<pc, local>>

NextMcp ==
    \/ Notification
    \/ Initialize
    \/ Ping
    \/ ToolsList
    \/ ToolsCallRequest
    \/ OtherMethod

SpecMcp == InitMcp /\ [][NextMcp]_vars

\* A request has been answered.
Answered == response # NoResponse

IsNotification(req) == req.id \in NotificationIds

KnownMethods == {"initialize", "ping", "tools/list", "tools/call"}

\* C12: a request whose id is absent or null is answered with HTTP 202 and
\* no response body, whatever its method.
C12_NotificationGets202NoBody ==
    (Answered /\ IsNotification(request)) =>
        /\ response.status = 202
        /\ response.json = None

\* C12, the case: a tools/call notification with the id null was answered
\* with 202, and the body of the answer is the JSON value null.
C12_Witness ==
    /\ Answered
    /\ request.id = Some(JsonNull)
    /\ request.method = "tools/call"
    /\ response.status = 202
    /\ response.json = Some(JsonNull)

IsOtherMethod(req) == ~IsNotification(req) /\ req.method \notin KnownMethods

\* C13: a request with a non-null id and a method other than initialize,
\* ping, tools/list and tools/call is answered with HTTP 200 and a JSON-RPC
\* error of code -32601 that carries the id of the request; the step leaves
\* the document and the signal file as they were and emits no event.
C13_OtherMethodIsMethodNotFound ==
    [][IsOtherMethod(request') =>
          /\ response'.status = 200
          /\ IsSome(response'.json)
          /\ DOMAIN Unwrap(response'.json) = {"jsonrpc", "id", "error"}
          /\ Unwrap(response'.json).error.code = -32601
          /\ Unwrap(response'.json).id = request'.id
          /\ projects' = projects
          /\ signal' = signal
          /\ events' = <<>>]_vars

\* C13, the case: a request named unknown_method that carries the params of a
\* finish_worker call on a project without tasks was answered with the error.
C13_Witness ==
    /\ Answered
    /\ request.method = "unknown_method"
    /\ request.id = Some(JsonString("a"))
    /\ "name" \in DOMAIN request.params
    /\ "error" \in DOMAIN Unwrap(response.json)
    /\ signal = None

IsCall(req) == ~IsNotification(req) /\ req.method = "tools/call"

ToolName(req) == IF "name" \in DOMAIN req.params THEN req.params.name ELSE ""

Listed(tool_name) == \E i \in 1..Len(tool_definitions) : tool_definitions[i] = tool_name

\* The answer is a JSON-RPC result, and the result is a tool-level error.
IsToolLevelError(resp) ==
    /\ resp.status = 200
    /\ IsSome(resp.json)
    /\ DOMAIN Unwrap(resp.json) = {"jsonrpc", "id", "result"}
    /\ "isError" \in DOMAIN Unwrap(resp.json).result
    /\ Unwrap(resp.json).result.isError = TRUE

\* The result that the unknown-tool branch gives.
FromUnknownToolBranch(resp) ==
    /\ IsToolLevelError(resp)
    /\ Unwrap(resp.json).result.content[1].text.fmt = "unknown_tool"

\* C14: a tools/call that names no tool of the catalog is answered with a
\* JSON-RPC result that is a tool-level error (isError true), and a
\* tools/call that names a tool listed by tools/list is answered by the
\* tool's handler, never by the unknown-tool branch.
C14_UnknownToolIsToolErrorListedToolsDispatch ==
    (Answered /\ IsCall(request)) =>
        IF Listed(ToolName(request))
        THEN /\ "result" \in DOMAIN Unwrap(response.json)
             /\ ~FromUnknownToolBranch(response)
        ELSE FromUnknownToolBranch(response)

\* C14, the case: a call of a name that differs from a tool's name in case
\* only was answered by the unknown-tool branch.
C14_Witness ==
    /\ Answered
    /\ IsCall(request)
    /\ ToolName(request) = "Finish_Worker"
    /\ FromUnknownToolBranch(response)
    /\ Unwrap(response.json).result.content[1].text.tool_name = "Finish_Worker"

ProjectTools ==
    {"query_project_todos", "query_task_details", "submit_task_report",
     "query_tag_catalog", "upsert_tag_definition", "finish_worker"}

TaskTools == {"query_task_details", "submit_task_report"}

Arguments(req) ==
    IF "arguments" \in DOMAIN req.params THEN req.params.arguments ELSE [none |-> TRUE]

\* The project argument of the call resolves to no project, or it resolves
\* and the task id is the id of no task of the project.
LookupFails(req, ps) ==
    LET Misses(idx) ==
          \/ idx = None
          \/ /\ ToolName(req) \in TaskTools
             /\ \A j \in 1..Len(ps[Unwrap(idx)].tasks) :
                   ps[Unwrap(idx)].tasks[j].id # AtomArg(Arguments(req), "task_id")
    IN  Misses(find_project_index(ps, StrArg(Arguments(req), "project")))

\* C15: a call of a tool that takes a project, whose project does not
\* resolve or whose task id does not resolve within the project, is answered
\* with a tool-level error (isError true) inside a JSON-RPC result.
C15_LookupErrorsAreToolErrors ==
    (Answered /\ IsCall(request) /\ ToolName(request) \in ProjectTools
       /\ LookupFails(request, projects)) =>
        IsToolLevelError(response)

\* C15, the case: query_project_todos for a project that does not resolve
\* was answered with a result that lists the projects and has no isError.
C15_Witness ==
    /\ Answered
    /\ IsCall(request)
    /\ ToolName(request) = "query_project_todos"
    /\ LookupFails(request, projects)
    /\ "result" \in DOMAIN Unwrap(response.json)
    /\ "isError" \notin DOMAIN Unwrap(response.json).result
    /\ Unwrap(response.json).result.content[1].text.fmt = "project_not_found_available"
---------------------------------------------------------------------------
(* The worker session manager (main.rs): start_interactive_worker runs on a
   blocking thread per call, with one reader thread per output stream;
   send_worker_input and stop_worker_session are commands of the UI.  Here
   `pc[r]` is the next statement of call r of start_interactive_worker,
   `local` holds the session table, the children and the reader threads,
   `events` the events of the last step and `request`/`response` the last
   command and its result. *)

Runs == {1, 2}

WorkerIds == {"w1", "w2"}

Streams == {"stdout", "stderr"}

MaxChunks == 1

MaxExits == 1

WorkerLogEvent(worker_id, stream, line) ==
    [name |-> "maple://worker-log", worker_id |-> worker_id, stream |-> stream,
     line |-> line]

WorkerDoneEvent(worker_id, success, code) ==
    [name |-> "maple://worker-done", worker_id |-> worker_id, success |-> success,
     code |-> code]

\* stdin: Option<ChildStdin>, the handle named by the call whose child it
\* belongs to.
ManagedWorkerSession(stdin) == [stdin |-> stdin]

\* ExitStatus: success() and code().
ExitStatuses == {[success |-> TRUE, code |-> Some(0)], [success |-> FALSE, code |-> Some(1)]}

\* HashMap<String, ManagedWorkerSession>
HashMapInsert(map, key, value) ==
    [k \in (DOMAIN map) \cup {key} |-> IF k = key THEN value ELSE map[k]]

HashMapRemove(map, key) == [k \in (DOMAIN map) \ {key} |-> map[k]]

EmptySessions == [k \in {} |-> ManagedWorkerSession(None)]

\* A body that starts the readers before it registers the session.
start_interactive_worker_readers_first ==
    <<"spawn_stdout_reader", "spawn_stderr_reader", "insert", "wait",
      "join_stdout", "join_stderr", "remove", "emit_done">>

\* A body that reports completion as soon as the process has exited.
start_interactive_worker_done_on_exit ==
    <<"insert", "spawn_stdout_reader", "spawn_stderr_reader", "wait",
      "emit_done", "join_stdout", "join_stderr", "remove">>

\* The statements of the blocking task after the child was spawned and its
\* handles were taken, in program order.
start_interactive_worker ==
    <<"insert", "spawn_stdout_reader", "spawn_stderr_reader", "wait",
      "join_stdout", "join_stderr", "remove", "emit_done">>

\* The statement call r is at: none before the spawn and after the return.
Statement(r) ==
    IF pc[r] \in 1..Len(start_interactive_worker)
    THEN start_interactive_worker[pc[r]] ELSE "none"

NoChild ==
    [worker_id |-> "", child |-> "none", status |-> None,
     buffer |-> [s \in Streams |-> 0],
     reader |-> [s \in Streams |-> "not_started"], registered |-> FALSE,
     logs |-> [s \in Streams |-> 0], dones |-> 0, failed |-> FALSE]

NoCommand == [op |-> "none"]

\* What a step wrote to the stdin of the child of call r.
Written(r, data) == [to |-> r, written |-> data]

InitSessions ==
    /\ projects = <<>>
    /\ signal = None
    /\ events = <<>>
    /\ clock = 0
    /\ request = NoCommand
    /\ response = NoCommand
    /\ pc = [r \in Runs |-> 0]
    /\ local = [sessions |-> EmptySessions, run |-> [r \in Runs |-> NoChild]]

\* A step of a thread or of a child: no command is answered in it.
ThreadStep(r, emitted, written) ==
    /\ events' = emitted
    /\ request' = NoCommand
    /\ response' = written
    /\ UNCHANGED <<projects, signal, clock>>

Advance(r) == pc' = [pc EXCEPT ![r] = @ + 1]

\* start_interactive_worker up to the handles: the executable is checked, the
\* child is spawned (with the pty wrapper or without it), the prompt is
\* written to its stdin, and stdin, stdout and stderr are taken.  A spawn
\* that fails returns the error.
Spawn(r) ==
    \E worker_id \in (IF r = 1 THEN {"w1"} ELSE WorkerIds),
       prompt \in {Some("prompt")}, spawned \in BOOLEAN :
        /\ pc[r] = 0
        /\ IF spawned
           THEN /\ Advance(r)
                /\ local' = [local EXCEPT !.run[r].worker_id = worker_id,
                                          !.run[r].child = "running"]
                /\ ThreadStep(r, <<>>, IF IsSome(prompt)
                                       THEN Written(r, <<Unwrap(prompt), "\n", "flush">>)
                                       ELSE NoCommand)
           ELSE /\ pc' = [pc EXCEPT ![r] = Len(start_interactive_worker) + 1]
                /\ local' = [local EXCEPT !.run[r].worker_id = worker_id,
                                          !.run[r].failed = TRUE]
                /\ ThreadStep(r, <<>>, NoCommand)

\* sessions.insert(wid, ManagedWorkerSession { stdin: stdin_handle })
InsertSession(r) ==
    /\ Statement(r) = "insert"
    /\ Advance(r)
    /\ local' = [local EXCEPT
         !.sessions = HashMapInsert(@, local.run[r].worker_id,
                                    ManagedWorkerSession(Some(r))),
         !.run[r].registered = TRUE]
    /\ ThreadStep(r, <<>>, NoCommand)

\* std::thread::spawn(stream_chunks_app(.., "stdout", stdout))
SpawnStdoutReader(r) ==
    /\ Statement(r) = "spawn_stdout_reader"
    /\ Advance(r)
    /\ local' = [local EXCEPT !.run[r].reader["stdout"] = "reading"]
    /\ ThreadStep(r, <<>>, NoCommand)

SpawnStderrReader(r) ==
    /\ Statement(r) = "spawn_stderr_reader"
    /\ Advance(r)
    /\ local' = [local EXCEPT !.run[r].reader["stderr"] = "reading"]
    /\ ThreadStep(r, <<>>, NoCommand)

\* child.wait() returns the status once the process has exited.
WaitChild(r) ==
    /\ Statement(r) = "wait"
    /\ local.run[r].child = "exited"
    /\ Advance(r)
    /\ UNCHANGED local
    /\ ThreadStep(r, <<>>, NoCommand)

\* child.wait() fails: the error is returned with `?`, the reader threads are
\* left running and nothing after the wait is executed.
WaitChildFails(r) ==
    /\ Statement(r) = "wait"
    /\ pc' = [pc EXCEPT ![r] = Len(start_interactive_worker) + 1]
    /\ local' = [local EXCEPT !.run[r].failed = TRUE]
    /\ ThreadStep(r, <<>>, NoCommand)

\* stdout_handle.join(): returns when the reader thread has finished.
JoinStdoutReader(r) ==
    /\ Statement(r) = "join_stdout"
    /\ local.run[r].reader["stdout"] = "finished"
    /\ Advance(r)
    /\ UNCHANGED local
    /\ ThreadStep(r, <<>>, NoCommand)

JoinStderrReader(r) ==
    /\ Statement(r) = "join_stderr"
    /\ local.run[r].reader["stderr"] = "finished"
    /\ Advance(r)
    /\ UNCHANGED local
    /\ ThreadStep(r, <<>>, NoCommand)

\* sessions.remove(&wid)
RemoveSession(r) ==
    /\ Statement(r) = "remove"
    /\ Advance(r)
    /\ local' = [local EXCEPT !.sessions = HashMapRemove(@, local.run[r].worker_id)]
    /\ ThreadStep(r, <<>>, NoCommand)

\* app_handle.emit("maple://worker-done", ..); Ok(true) follows when this is
\* the last statement.
EmitDone(r) ==
    /\ Statement(r) = "emit_done"
    /\ Advance(r)
    /\ local' = [local EXCEPT !.run[r].dones = @ + 1]
    /\ ThreadStep(r, <<WorkerDoneEvent(local.run[r].worker_id,
                                       Unwrap(local.run[r].status).success,
                                       Unwrap(local.run[r].status).code)>>, NoCommand)

\* The task has returned: Ok(true) after its last statement, or the error of
\* the statement that failed.
Returned(r) == pc[r] = Len(start_interactive_worker) + 1

\* stream_chunks_app, Ok(size): a chunk is read and emitted as a log event.
ReadChunk(r, s) ==
    /\ local.run[r].reader[s] = "reading"
    /\ local.run[r].buffer[s] > 0
    /\ UNCHANGED pc
    /\ local' = [local EXCEPT !.run[r].buffer[s] = @ - 1,
                              !.run[r].logs[s] = @ + 1]
    /\ ThreadStep(r, <<WorkerLogEvent(local.run[r].worker_id, s,
                                      <<"chunk", local.run[r].logs[s] + 1>>)>>, NoCommand)

\* stream_chunks_app, Ok(0): the pipe is empty and its write end is closed.
ReadEof(r, s) ==
    /\ local.run[r].reader[s] = "reading"
    /\ local.run[r].buffer[s] = 0
    /\ local.run[r].child = "exited"
    /\ UNCHANGED pc
    /\ local' = [local EXCEPT !.run[r].reader[s] = "finished"]
    /\ ThreadStep(r, <<>>, NoCommand)

RECURSIVE Chunks(_)
\* The chunks the children have written so far.
Chunks(rs) ==
    IF rs = {} THEN 0
    ELSE LET r == CHOOSE x \in rs : TRUE
         IN  local.run[r].buffer["stdout"] + local.run[r].logs["stdout"]
               + local.run[r].buffer["stderr"] + local.run[r].logs["stderr"]
               + Chunks(rs \ {r})

\* The child writes a chunk to one of its output pipes.
ChildOutput(r, s) ==
    /\ local.run[r].child = "running"
    /\ Chunks(Runs) < MaxChunks
    /\ UNCHANGED pc
    /\ local' = [local EXCEPT !.run[r].buffer[s] = @ + 1]
    /\ ThreadStep(r, <<>>, NoCommand)

\* The children that have exited so far.
Exited == {r \in Runs : local.run[r].child = "exited"}

\* The child exits; its ends of the pipes are closed.
ChildExit(r) ==
    \E status \in ExitStatuses :
        /\ local.run[r].child = "running"
        /\ Cardinality(Exited) < MaxExits
        /\ UNCHANGED pc
        /\ local' = [local EXCEPT !.run[r].child = "exited",
                                  !.run[r].status = Some(status)]
        /\ ThreadStep(r, <<>>, NoCommand)

SessionNotFound(worker_id) == [ok |-> FALSE, error |-> "SessionNotFound", worker_id |-> worker_id]

StdinClosed == [ok |-> FALSE, error |-> "StdinClosed"]

WriteFailed == [ok |-> FALSE, error |-> "WriteFailed"]

\* What the command returns, the table it leaves, and what reached the stdin
\* of which child.
Command(result, sessions, written) ==
    [result |-> result, sessions |-> sessions, written |-> written]

\* A send_worker_input that forgets a session whose stdin cannot be written.
send_worker_input_forgetting(sessions, children, worker_id, input, append_newline) ==
    LET Write(child) ==
          IF children[child].child # "running"
          THEN Command(WriteFailed, HashMapRemove(sessions, worker_id), NoCommand)
          ELSE Command(Ok(TRUE), sessions,
                       Written(child,
                               <<input>>
                                 \o (IF append_newline = None \/ append_newline = Some(TRUE)
                                     THEN <<"\n">> ELSE <<>>)
                                 \o <<"flush">>))
    IN  IF worker_id \notin DOMAIN sessions
        THEN Command(SessionNotFound(worker_id), sessions, NoCommand)
        ELSE IF sessions[worker_id].stdin = None
        THEN Command(StdinClosed, sessions, NoCommand)
        ELSE Write(Unwrap(sessions[worker_id].stdin))

\* The write fails when the read end of the pipe is closed: the child has
\* exited.
send_worker_input(sessions, children, worker_id, input, append_newline) ==
    LET Write(child) ==
          IF children[child].child # "running"
          THEN Command(WriteFailed, sessions, NoCommand)
          ELSE Command(Ok(TRUE), sessions,
                       Written(child,
                               <<input>>
                                 \o (IF append_newline = None \/ append_newline = Some(TRUE)
                                     THEN <<"\n">> ELSE <<>>)
                                 \o <<"flush">>))
    IN  IF worker_id \notin DOMAIN sessions
        THEN Command(SessionNotFound(worker_id), sessions, NoCommand)
        ELSE IF sessions[worker_id].stdin = None
        THEN Command(StdinClosed, sessions, NoCommand)
        ELSE Write(Unwrap(sessions[worker_id].stdin))

\* A stop_worker_session that clears the table.
stop_worker_session_clearing(sessions, worker_id) ==
    IF worker_id \in DOMAIN sessions
    THEN Command(Ok(TRUE), EmptySessions, NoCommand)
    ELSE Command(Ok(FALSE), sessions, NoCommand)

stop_worker_session(sessions, worker_id) ==
    IF worker_id \in DOMAIN sessions
    THEN Command(Ok(TRUE), HashMapRemove(sessions, worker_id), NoCommand)
    ELSE Command(Ok(FALSE), sessions, NoCommand)

\* The command is run under the lock of the table, in one step.
Commanded(command, out) ==
    /\ request' = command
    /\ response' = [result |-> out.result, written |-> out.written]
    /\ events' = <<>>
    /\ local' = [local EXCEPT !.sessions = out.sessions]
    /\ UNCHANGED <<projects, signal, clock, pc>>

SendWorkerInput ==
    \E worker_id \in WorkerIds, append_newline \in {None, Some(FALSE)} :
        \E out \in {send_worker_input(local.sessions, local.run, worker_id,
                                         "text", append_newline)} :
            Commanded([op |-> "send_worker_input", worker_id |-> worker_id,
                       input |-> "text", append_newline |-> append_newline], out)

StopWorkerSession ==
    \E worker_id \in WorkerIds :
        \E out \in {stop_worker_session(local.sessions, worker_id)} :
            Commanded([op |-> "stop_worker_session", worker_id |-> worker_id], out)

NextSessions ==
    \/ \E r \in Runs : Spawn(r)
    \/ \E r \in Runs : InsertSession(r)
    \/ \E r \in Runs : SpawnStdoutReader(r)
    \/ \E r \in Runs : SpawnStderrReader(r)
    \/ \E r \in Runs : WaitChild(r)
    \/ \E r \in Runs : WaitChildFails(r)
    \/ \E r \in Runs : JoinStdoutReader(r)
    \/ \E r \in Runs : JoinStderrReader(r)
    \/ \E r \in Runs : RemoveSession(r)
    \/ \E r \in Runs : EmitDone(r)
    \/ \E r \in Runs, s \in Streams : ReadChunk(r, s)
    \/ \E r \in Runs, s \in Streams : ReadEof(r, s)
    \/ \E r \in Runs, s \in Streams : ChildOutput(r, s)
    \/ \E r \in Runs : ChildExit(r)
    \/ SendWorkerInput
    \/ StopWorkerSession

SpecSessions == InitSessions /\ [][NextSessions]_vars

\* A log event of call r is emitted in this step.
LogEmitted(r) == \E s \in Streams : local'.run[r].logs[s] > local.run[r].logs[s]

\* A reader thread of call r is started in this step.
ReaderStarted(r) ==
    \E s \in Streams : /\ local.run[r].reader[s] = "not_started"
                       /\ local'.run[r].reader[s] # "not_started"

\* C16: the session is inserted into the table before either reader thread is
\* started, so no log event of a session is emitted while the session has not
\* been registered yet.
C16_RegisteredBeforeReadersAndLogs ==
    [][\A r \in Runs :
         /\ ReaderStarted(r) => local.run[r].registered
         /\ LogEmitted(r) => local.run[r].registered]_vars

\* A registered session has emitted a log event.
C16_Witness ==
    \E r \in Runs :
        /\ local.run[r].registered
        /\ local.run[r].logs["stdout"] > 0
        /\ events # <<>> /\ events[1].name = "maple://worker-log"

\* The done event of call r is emitted in this step.
DoneEmitted(r) == local'.run[r].dones > local.run[r].dones

\* The table holds the entry that call r inserted: the one with the stdin of
\* its child.
HoldsEntryOf(sessions, r) ==
    \E w \in DOMAIN sessions : sessions[w] = ManagedWorkerSession(Some(r))

\* C17: the done event of a session is emitted only after its process has
\* exited and both reader threads have finished, so no log event of the
\* session follows it; it is emitted at most once, carries the exit status of
\* the process, and the entry of the session has left the table by then.
C17_DoneAfterExitAndReadersOnce ==
    [][\A r \in Runs :
         /\ DoneEmitted(r) =>
              /\ local.run[r].child = "exited"
              /\ \A s \in Streams : local.run[r].reader[s] = "finished"
              /\ local.run[r].dones = 0
              /\ ~HoldsEntryOf(local.sessions, r)
              /\ events' = <<WorkerDoneEvent(local.run[r].worker_id,
                                             Unwrap(local.run[r].status).success,
                                             Unwrap(local.run[r].status).code)>>
         /\ LogEmitted(r) => local.run[r].dones = 0]_vars

\* A session that emitted a log event has just emitted its done event with a
\* failing exit status.
C17_Witness ==
    \E r \in Runs :
        /\ local.run[r].dones = 1
        /\ local.run[r].logs["stderr"] > 0
        /\ events = <<WorkerDoneEvent(local.run[r].worker_id, FALSE, Some(1))>>

\* The child of call r was spawned.
Spawned(r) == local.run[r].child # "none"

\* C18: no call of start_interactive_worker that spawned its child ends
\* without the done event of the session or leaves the entry of the session
\* in the table.
C18_EndedSessionEmittedDoneAndLeftTable ==
    \A r \in Runs :
        (Spawned(r) /\ Returned(r)) =>
            /\ local.run[r].dones = 1
            /\ ~HoldsEntryOf(local.sessions, r)

\* The process has exited and both readers have finished, but the call has
\* returned the error of child.wait(): no done event was emitted and the entry
\* of the session is still in the table.
C18_Witness ==
    \E r \in Runs :
        /\ Returned(r)
        /\ local.run[r].failed
        /\ local.run[r].child = "exited"
        /\ \A s \in Streams : local.run[r].reader[s] = "finished"
        /\ local.run[r].dones = 0
        /\ HoldsEntryOf(local.sessions, r)

\* What a successful send_worker_input writes to the stdin of the child.
InputWritten(command) ==
    <<command.input>>
      \o (IF command.append_newline = Some(FALSE) THEN <<>> ELSE <<"\n">>)
      \o <<"flush">>

EntryAdded(w) == w \notin DOMAIN local.sessions /\ w \in DOMAIN local'.sessions

\* Call r registers its session in this step.
Registers(r) == ~local.run[r].registered /\ local'.run[r].registered

\* C20: stop_worker_session returns true and removes the entry exactly when
\* the table has an entry for the workerId, and returns false and leaves the
\* table unchanged otherwise; the entries of the other workerIds are untouched
\* and nothing is done to the process: its state, its pipes' readers and the
\* call that waits for it are as before.  An entry comes into the table only
\* when a call of start_interactive_worker registers it, so a second stop for
\* the workerId without a start in between returns false.
C20_StopRemovesEntryOnly ==
    [][/\ request'.op = "stop_worker_session" =>
            /\ request'.worker_id \in DOMAIN local.sessions
                 => /\ response'.result = Ok(TRUE)
                    /\ DOMAIN local'.sessions
                         = (DOMAIN local.sessions) \ {request'.worker_id}
            /\ request'.worker_id \notin DOMAIN local.sessions
                 => /\ response'.result = Ok(FALSE)
                    /\ local'.sessions = local.sessions
            /\ \A w \in (DOMAIN local.sessions) \ {request'.worker_id} :
                   /\ w \in DOMAIN local'.sessions
                   /\ local'.sessions[w] = local.sessions[w]
            /\ (request.op = "stop_worker_session"
                  /\ request.worker_id = request'.worker_id)
                 => response'.result = Ok(FALSE)
            /\ response'.written = NoCommand
            /\ local'.run = local.run
            /\ pc' = pc
            /\ events' = <<>>
       /\ \A w \in WorkerIds :
              EntryAdded(w) => \E r \in Runs : Registers(r) /\ local.run[r].worker_id = w]_vars

\* A stop has removed the entry of w1 while its process is still running and
\* the call still waits for it; the entry of w2 is still in the table.
C20_Witness ==
    /\ request = [op |-> "stop_worker_session", worker_id |-> "w1"]
    /\ response.result = Ok(TRUE)
    /\ DOMAIN local.sessions = {"w2"}
    /\ local.run[1].child = "running"
    /\ Statement(1) = "wait"
---------------------------------------------------------------------------
(* Every tool against one document, one request at a time, while time
   passes: what a call changes in the tasks and in the tag catalog. *)

\* Reports with and without a status (one of them outside the vocabulary),
\* and calls that resolve no project or no task.
ToolSubmitArgs ==
    {[project |-> <<"d","e","m","o">>, task_id |-> "A", report |-> "r1"],
     [project |-> <<"d","e","m","o">>, task_id |-> "A", report |-> "r1",
      status |-> "done"],
     [project |-> <<"d","e","m","o">>, task_id |-> "B", report |-> "r2",
      status |-> "unlisted", tags |-> <<[str |-> UiTag]>>],
     [project |-> <<"d","e","m","o">>, task_id |-> "C", report |-> "r1",
      status |-> "done"],
     [project |-> <<"z","z">>, task_id |-> "A", report |-> "r1", status |-> "done"]}

\* Upserts that are stored, and one that is refused.
ToolUpsertArgs ==
    {[project |-> <<"d","e","m","o">>, tag |-> <<"U","i">>, color |-> <<"r","e","d">>],
     [project |-> <<"d","e","m","o">>, tag |-> <<" ">>]}

ToolQueryCalls ==
    {[name |-> "query_project_todos", arguments |-> [project |-> <<"d","e","m","o">>]],
     [name |-> "query_recent_context", arguments |-> [keyword |-> <<"r","1">>]],
     [name |-> "query_task_details",
      arguments |-> [project |-> <<"d","e","m","o">>, task_id |-> "A"]],
     [name |-> "read_asset_image",
      arguments |-> [file_name |-> <<"hash:1", ".", "p","n","g">>]],
     [name |-> "query_tag_catalog", arguments |-> [project |-> <<"d","e","m","o">>]]}

QueryTool ==
    \E params \in ToolQueryCalls :
        /\ Answer(Body(Some(JsonNumber(1)), "tools/call", params), 0, 0)
        /\ UNCHANGED <<pc, local>>

UpsertTool ==
    \E a \in ToolUpsertArgs :
        /\ Answer(ToolsCall("upsert_tag_definition", a), 0, 0)
        /\ UNCHANGED <<pc, local>>

FinishTool ==
    \E a \in {[project |-> q, summary |-> "all done"] : q \in {DemoName, EmptyName}} :
        /\ Answer(ToolsCall("finish_worker", a), 0, 0)
        /\ UNCHANGED <<pc, local>>

SubmitTool ==
    \E a \in ToolSubmitArgs :
        /\ TotalReports(projects) < MaxReports
        /\ Answer(ToolsCall("submit_task_report", a), 0, 0)
        /\ UNCHANGED <<pc, local>>

NextTools == QueryTool \/ UpsertTool \/ FinishTool \/ SubmitTool \/ Tick

SpecTools == Init /\ [][NextTools]_vars

\* The status of every task of the document, in place.
StatusesOf(ps) ==
    [i \in 1..Len(ps) |-> [j \in 1..Len(ps[i].tasks) |-> ps[i].tasks[j].status]]

\* The call is a submit_task_report that succeeded and carried a status.
SubmittedStatus(req, resp) ==
    /\ IsToolsCall(req, "submit_task_report")
    /\ Accepted(resp)
    /\ "status" \in DOMAIN req.params.arguments

\* C21: the status of a task changes only in a step that is a successful
\* submit_task_report with a status argument, and then only that of the task
\* the call names, to the status of the call: the query tools,
\* upsert_tag_definition, finish_worker, a submit_task_report without a status
\* and the passing of time leave every status as it is.
C21_StatusChangesOnlyBySubmittedStatus ==
    [][/\ StatusesOf(projects') # StatusesOf(projects)
            => SubmittedStatus(request', response')
       /\ SubmittedStatus(request', response') =>
            \A i \in 1..Len(projects) : \A j \in 1..Len(projects[i].tasks) :
                projects'[i].tasks[j].status =
                    IF <<i, j>> = Target(request', projects)
                    THEN request'.params.arguments.status
                    ELSE projects[i].tasks[j].status]_vars

\* A report without a status was stored for task A, later than the report
\* that had set the status of A to done: the status is still done.
C21_Witness ==
    /\ IsToolsCall(request, "submit_task_report")
    /\ Accepted(response)
    /\ "status" \notin DOMAIN request.params.arguments
    /\ Len(projects[1].tasks[1].reports) = 2
    /\ projects[1].tasks[1].updated_at > projects[1].tasks[1].reports[1].created_at
    /\ projects[1].tasks[1].status = "done"

\* C22: the status of every task is one of the labels of the vocabulary (the
\* labels of the status enum of submit_task_report), whatever calls were made.
C22_StatusStaysInVocabulary ==
    \A i \in 1..Len(projects) : \A j \in 1..Len(projects[i].tasks) :
        projects[i].tasks[j].status \in Statuses

\* A submit_task_report with a status outside the vocabulary was answered with
\* success and the document holds that status.
C22_Witness ==
    /\ IsToolsCall(request, "submit_task_report")
    /\ Accepted(response)
    /\ Get(request.params.arguments, "status") = Some("unlisted")
    /\ projects[1].tasks[1].status = "unlisted"
---------------------------------------------------------------------------
(* Tags of a report: the cap on the tags of a task and the catalog entries
   that a report brings into being.  `local` is the catalog of Demo as the
   last handler read it. *)

TagA == <<"a","p","i">>

TagB == <<" ","U","I"," ">>

\* Seven entries, the second of them no string: six strings.
SevenTags ==
    <<[str |-> TagA], [num |-> 7], [str |-> <<"b">>], [str |-> <<"c">>],
      [str |-> <<"d">>], [str |-> <<"e">>], [str |-> <<"f">>]>>

\* Reports with more than five tags, with a blank tag and a tag to be
\* normalised, without tags, with an empty list, with a list that holds no
\* string; and a call that resolves no project.
CappedArgs ==
    {[project |-> <<"d","e","m","o">>, task_id |-> "A", report |-> "r1",
      tags |-> SevenTags],
     [project |-> <<"d","e","m","o">>, task_id |-> "A", report |-> "r1",
      tags |-> <<[str |-> <<" ">>], [str |-> TagB]>>],
     [project |-> <<"d","e","m","o">>, task_id |-> "A", report |-> "r2"],
     [project |-> <<"d","e","m","o">>, task_id |-> "A", report |-> "r2", tags |-> <<>>],
     [project |-> <<"d","e","m","o">>, task_id |-> "B", report |-> "r2",
      tags |-> <<[num |-> 7]>>],
     [project |-> <<"z","z">>, task_id |-> "A", report |-> "r1", tags |-> SevenTags]}

SubmitCappedReport ==
    \E a \in CappedArgs :
        /\ TotalReports(projects) < MaxReports
        /\ Answer(ToolsCall("submit_task_report", a), 0, 0)
        /\ local' = projects[1].tag_catalog
        /\ UNCHANGED pc

NextCaps == UpsertTagDefinition \/ SubmitCappedReport

SpecCaps == InitTags /\ [][NextCaps]_vars

RECURSIVE FirstStrings(_, _)
\* The first n string entries of a JSON array, in the order of the array.
FirstStrings(array, n) ==
    IF array = <<>> \/ n = 0 THEN <<>>
    ELSE IF IsJsonStr(Head(array))
    THEN <<Head(array).str>> \o FirstStrings(Tail(array), n - 1)
    ELSE FirstStrings(Tail(array), n)

\* The tags argument of the call: the empty array when there is none.
TagsArgument(req) ==
    IF "tags" \in DOMAIN req.params.arguments THEN req.params.arguments.tags ELSE <<>>

\* C23: no task ever has more than 5 tags.  A successful submit_task_report
\* replaces the tags of the task it names by the first 5 string entries of
\* its tags argument, in the order given, when there is such an entry, and
\* leaves them as they are when the argument is absent, empty or holds no
\* string; the tags of the other tasks are as before.
C23_TagsCappedAtFive ==
    [][/\ \A i \in 1..Len(projects') : \A j \in 1..Len(projects'[i].tasks) :
            Len(projects'[i].tasks[j].tags) <= 5
       /\ IsToolsCall(request', "submit_task_report") /\ Accepted(response') =>
            \A i \in 1..Len(projects) : \A j \in 1..Len(projects[i].tasks) :
                projects'[i].tasks[j].tags =
                    IF <<i, j>> = Target(request', projects)
                         /\ FirstStrings(TagsArgument(request'), 5) # <<>>
                    THEN FirstStrings(TagsArgument(request'), 5)
                    ELSE projects[i].tasks[j].tags]_vars

\* A report with seven tag entries was stored: the task has the first five
\* strings of them.
C23_Witness ==
    /\ IsToolsCall(request, "submit_task_report")
    /\ Accepted(response)
    /\ Len(TagsArgument(request)) = 7
    /\ projects[1].tasks[1].tags = <<TagA, <<"b">>, <<"c">>, <<"d">>, <<"e">>>>

\* The ids under which the tags of a task are defined: trimmed, lower-cased,
\* and not empty.
DefinedIds(task) ==
    {to_lowercase(trim(task.tags[k])) : k \in 1..Len(task.tags)} \ {<<>>}

\* The task the call names, as the document now holds it.
Reported(req, before, after) ==
    after[Target(req, before)[1]].tasks[Target(req, before)[2]]

\* C24: after a successful submit_task_report the tag catalog of the project
\* holds, for every tag of the reported task whose trimmed lower-cased id is
\* not empty, an entry under that id with an icon set; the ids that were not
\* in the catalog before are new keys of it, and no other key is new.
C24_ReportedTagsAreDefined ==
    [][IsToolsCall(request', "submit_task_report") /\ Accepted(response') =>
         LET Defined(ids, before, after) ==
               /\ \A id \in ids : id \in DOMAIN after /\ after[id].icon # None
               /\ DOMAIN after = (DOMAIN before) \cup ids
         IN  Defined(DefinedIds(Reported(request', projects, projects')),
                     projects[Target(request', projects)[1]].tag_catalog,
                     projects'[Target(request', projects)[1]].tag_catalog)]_vars

\* A report tagged " UI " was stored after an upsert had defined the colour of
\* ui only: the entry ui has its colour and an icon, and the blank tag of the
\* report has no entry.
C24_Witness ==
    /\ IsToolsCall(request, "submit_task_report")
    /\ Accepted(response)
    /\ projects[1].tasks[1].tags = <<<<" ">>, TagB>>
    /\ local = CatalogPut(EmptyCatalog, UiTag,
                          [color |-> Some(Red), icon |-> None, label |-> None])
    /\ DOMAIN projects[1].tag_catalog = {UiTag}
    /\ projects[1].tag_catalog[UiTag].color = Some(Red)
    /\ projects[1].tag_catalog[UiTag].icon # None
---------------------------------------------------------------------------
(* submit_task_report statement by statement, from the write of the document
   to the answer.  pc is the next statement of the handler (0: no call is
   being served); `local` holds the call, what the handler computed, the
   document it read, and the events it has emitted, each with whether a
   listener received it. *)

\* A handler that emits its events before it writes the document.
submit_task_report_effects_emitting_first ==
    <<"emit_task_updated", "emit_tag_catalog_updated", "write_state">>

\* The statements of tool_submit_task_report after the catalog was ensured, in
\* program order; the answer follows them.
submit_task_report_effects ==
    <<"write_state", "emit_task_updated", "emit_tag_catalog_updated">>

EmitStatement ==
    IF pc \in 1..Len(submit_task_report_effects)
    THEN submit_task_report_effects[pc] ELSE "none"

NoCall ==
    [body |-> NoRequest, out |-> NoResponse, before |-> <<>>, wrote |-> FALSE,
     emitted |-> <<>>, received |-> <<>>]

EmitArgs ==
    {[project |-> <<"d","e","m","o">>, task_id |-> "A", report |-> "r1",
      status |-> "done", tags |-> <<[str |-> UiTag]>>],
     [project |-> <<"d","e","m","o">>, task_id |-> "A", report |-> "r2"],
     [project |-> <<"d","e","m","o">>, task_id |-> "B", report |-> "r2",
      tags |-> <<[str |-> UiTag], [str |-> TagA]>>],
     [project |-> <<"d","e","m","o">>, task_id |-> "C", report |-> "r1"]}

InitEmit ==
    /\ projects = InitProjects
    /\ signal = None
    /\ events = <<>>
    /\ clock = 0
    /\ request = NoRequest
    /\ response = NoResponse
    /\ pc = 0
    /\ local = NoCall

\* A statement of the handler that is not the answer.
HandlerStep(emitted) ==
    /\ events' = emitted
    /\ request' = NoRequest
    /\ response' = NoResponse
    /\ pc' = pc + 1
    /\ UNCHANGED <<signal, clock>>

\* The handler takes the call, reads the document and runs up to the write;
\* a call that finds no project or no task is answered at once.
TakeSubmit ==
    \E a \in EmitArgs :
        /\ pc = 0
        /\ TotalReports(projects) < MaxReports
        /\ \E out \in {handle_mcp_post(ToolsCall("submit_task_report", a),
                                       read_state(projects), clock, clock)} :
              IF IsSome(out.effects.write)
              THEN /\ local' = [NoCall EXCEPT
                                  !.body = ToolsCall("submit_task_report", a),
                                  !.out = out, !.before = projects]
                   /\ HandlerStep(<<>>)
                   /\ UNCHANGED projects
              ELSE /\ Respond(ToolsCall("submit_task_report", a), out)
                   /\ UNCHANGED <<clock, pc, local>>

\* write_state(&projects)
WriteState ==
    /\ EmitStatement = "write_state"
    /\ projects' = write_state(projects, Unwrap(local.out.effects.write))
    /\ local' = [local EXCEPT !.wrote = TRUE]
    /\ HandlerStep(<<>>)

\* app_handle.emit("maple://task-updated", ..), its result dropped: a
\* listener receives the event or none is attached.
EmitTaskUpdated ==
    \E listener \in BOOLEAN :
        /\ EmitStatement = "emit_task_updated"
        /\ local' = [local EXCEPT
             !.emitted = Append(@, [event |-> local.out.effects.events[1],
                                    wrote |-> local.wrote]),
             !.received = Append(@, listener)]
        /\ HandlerStep(<<local.out.effects.events[1]>>)
        /\ UNCHANGED projects

\* if let Some(tag_catalog) = catalog_snapshot { app_handle.emit(..) }
EmitTagCatalogUpdated ==
    \E listener \in BOOLEAN :
        /\ EmitStatement = "emit_tag_catalog_updated"
        /\ IF Len(local.out.effects.events) = 2
           THEN /\ local' = [local EXCEPT
                     !.emitted = Append(@, [event |-> local.out.effects.events[2],
                                            wrote |-> local.wrote]),
                     !.received = Append(@, listener)]
                /\ HandlerStep(<<local.out.effects.events[2]>>)
           ELSE /\ listener
                /\ UNCHANGED local
                /\ HandlerStep(<<>>)
        /\ UNCHANGED projects

\* The handler returns the tool result and the call is answered.
AnswerSubmit ==
    /\ pc = Len(submit_task_report_effects) + 1
    /\ request' = local.body
    /\ response' = [status |-> local.out.status, json |-> local.out.json]
    /\ events' = <<>>
    /\ pc' = 0
    /\ UNCHANGED <<projects, signal, clock, local>>

NextEmit ==
    TakeSubmit \/ WriteState \/ EmitTaskUpdated \/ EmitTagCatalogUpdated \/ AnswerSubmit

SpecEmit == InitEmit /\ [][NextEmit]_vars

\* The events of the call, in the order of their emission.
EmittedEvents == [k \in 1..Len(local.emitted) |-> local.emitted[k].event]

\* C25: a successful submit_task_report has emitted, when it answers, exactly
\* one task-updated event, with the task as the document now holds it, and
\* after it one tag-catalog-updated event, with the catalog as the document
\* now holds it, exactly when the catalog differs from the one the handler
\* read; each of them was emitted after the document was written.  Whether a
\* listener received an event or not, the emission leaves the document as it
\* is and the answer is the same success.
C25_EventsAfterWriteOncePerReport ==
    [][/\ (IsToolsCall(request', "submit_task_report") /\ Accepted(response')) =>
            LET Emitted(i, j) ==
                  /\ EmittedEvents =
                        <<TaskUpdatedEvent(projects[i].name, projects[i].tasks[j])>>
                          \o (IF projects[i].tag_catalog # local.before[i].tag_catalog
                              THEN <<TagCatalogUpdatedEvent(projects[i].name,
                                                            projects[i].tag_catalog)>>
                              ELSE <<>>)
                  /\ \A k \in 1..Len(local.emitted) : local.emitted[k].wrote
                  /\ projects # local.before
                  /\ response' = [status |-> 200,
                                  json |-> Some(JsonRpcResult(request'.id,
                                                              local.out.effects.result))]
            IN  Emitted(Target(request', local.before)[1], Target(request', local.before)[2])
       /\ events' # <<>> => projects' = projects]_vars

\* A report that brought a new tag was answered with success although no
\* listener received either of its two events.
C25_Witness ==
    /\ IsToolsCall(request, "submit_task_report")
    /\ Accepted(response)
    /\ Len(local.emitted) = 2
    /\ local.received = <<FALSE, FALSE>>
    /\ projects[1].tasks[1].status = "done"
---------------------------------------------------------------------------
(* The state file on disk: there or not, readable or not, parseable or not *)

\* read_state that fails the call when the file cannot be used: it hands on
\* whatever document the bytes once held.
read_state_file_trusting(file, document) == read_state(document)

\* read_state that takes what it can from a file it cannot parse.
read_state_file_lenient(file, document) ==
    IF file.exists /\ file.readable THEN read_state(document) ELSE <<>>

\* read_state(): `file` says whether state.json exists, whether
\* read_to_string succeeds and whether serde_json::from_str yields a
\* Vec<Project>; `document` is what the bytes hold (or held before they were
\* damaged).  Every failure becomes the empty list.
read_state_file(file, document) ==
    IF ~file.exists THEN <<>>
    ELSE IF file.readable /\ file.parses THEN read_state(document)
    ELSE <<>>

Usable == [exists |-> TRUE, readable |-> TRUE, parses |-> TRUE]
Missing == [exists |-> FALSE, readable |-> FALSE, parses |-> FALSE]
Unreadable == [exists |-> TRUE, readable |-> FALSE, parses |-> TRUE]
Unparseable == [exists |-> TRUE, readable |-> TRUE, parses |-> FALSE]

InitDisk ==
    /\ projects = McpProjects
    /\ signal = None
    /\ events = <<>>
    /\ clock = 0
    /\ request = NoRequest
    /\ response = NoResponse
    /\ pc = <<>>
    /\ local \in {Usable, Missing}

\* Something outside the server removes the file, takes the permission to
\* read it away, or leaves bytes in it that are no document.
FileChanges ==
    \E file \in {Missing, Unreadable, Unparseable} :
        /\ local = Usable
        /\ local' = file
        /\ request' = NoRequest
        /\ response' = NoResponse
        /\ events' = <<>>
        /\ UNCHANGED <<projects, signal, clock, pc>>

\* POST /mcp tools/call, the handler reading the file as it is; a handler
\* that writes leaves a file that parses.
ToolsCallOnDisk ==
    \E params \in AllCallParams :
        /\ ("name" \in DOMAIN params /\ params.name = "submit_task_report")
              => TotalReports(projects) < MaxReports
        /\ \E out \in {handle_mcp_post(Body(Some(JsonNumber(1)), "tools/call", params),
                                       read_state_file(local, projects), clock, clock)} :
              /\ Respond(Body(Some(JsonNumber(1)), "tools/call", params), out)
              /\ local' = IF IsSome(out.effects.write) THEN Usable ELSE local
        /\ UNCHANGED <<clock, pc>>

NextDisk == FileChanges \/ ToolsCallOnDisk

SpecDisk == InitDisk /\ [][NextDisk]_vars

\* The tools of the catalog.
CatalogTools ==
    ProjectTools \cup {"query_recent_context", "read_asset_image"}

\* The tool result says that no project matches.
SaysProjectNotFound(resp) ==
    /\ HasResult(resp)
    /\ ResultText(resp).fmt \in {"project_not_found", "project_not_found_available"}

\* upsert_tag_definition refuses the tag or the icon before it reads the file.
RefusedArguments(resp) ==
    Refused(resp) /\ ResultText(resp).fmt \in {"tag_empty", "icon_not_mingcute"}

\* C26 as stated: every call of a tool of the catalog that is answered while
\* the file is missing, unreadable or unparseable says that no project matches.
C26_EveryToolReportsNotFound ==
    [][(local # Usable /\ IsCall(request') /\ ToolName(request') \in CatalogTools) =>
          SaysProjectNotFound(response')]_vars

\* C26: read_state gives the empty list when the file is missing, unreadable
\* or unparseable.  A call answered while the file is in one of these states
\* is answered with a JSON-RPC result and writes nothing; a call of a tool
\* that looks a project up says that no project matches, unless it is an
\* upsert_tag_definition refused for its tag or icon before the file is read;
\* query_recent_context says that no report matches; read_asset_image
\* answers as it does when the file is usable.
C26_UnusableFileIsEmptyList ==
    [][(local # Usable /\ IsCall(request')) =>
          /\ read_state_file(local, projects) = <<>>
          /\ HasResult(response')
          /\ projects' = projects /\ signal' = signal /\ events' = <<>> /\ local' = local
          /\ ToolName(request') \in ProjectTools =>
                \/ SaysProjectNotFound(response')
                \/ ToolName(request') = "upsert_tag_definition" /\ RefusedArguments(response')
          /\ ToolName(request') = "query_recent_context" =>
                Accepted(response') /\ ResultText(response').fmt = "no_reports"
          /\ ToolName(request') = "read_asset_image" =>
                response' = [status |-> 200,
                             json |-> handle_mcp_post(request', projects, clock, clock).json]
      ]_vars

\* finish_worker for a project of the document was answered "not found"
\* because the file holding the document could not be parsed.
C26_Witness ==
    /\ local = Unparseable
    /\ IsCall(request)
    /\ ToolName(request) = "finish_worker"
    /\ StrArg(Arguments(request), "project") = <<"d","e","m","o">>
    /\ find_project_index(projects, <<"d","e","m","o">>) # None
    /\ SaysProjectNotFound(response)
    /\ signal = None
---------------------------------------------------------------------------
(* state.json as JSON text: what serde reads from it and writes back.  A JSON
   object is a function from its keys to its values; an Option field of a
   struct is None or Some(value). *)

Without(object, key) == [k \in DOMAIN object \ {key} |-> object[k]]

\* Option<T> from a key: an absent key and null are both None.
OptionField(object, key) ==
    IF key \in DOMAIN object /\ object[key] # JsonNull THEN Some(object[key]) ELSE None

\* #[serde(skip_serializing_if = "Option::is_none")]
SkipNone(key, option) ==
    IF IsSome(option) THEN [k \in {key} |-> Unwrap(option)] ELSE <<>>

\* #[derive(Deserialize)] on TaskReport: four required strings; keys that
\* are no field of the struct are ignored.
deserialize_report(object) ==
    IF {"id", "author", "content", "createdAt"} \subseteq DOMAIN object
    THEN Some([id |-> object.id, author |-> object.author, content |-> object.content,
               created_at |-> object.createdAt])
    ELSE None

serialize_report(report) ==
    [id |-> report.id, author |-> report.author, content |-> report.content,
     createdAt |-> report.created_at]

DeserializeAll(objects, deserialize(_)) ==
    IF \A k \in 1..Len(objects) : IsSome(deserialize(objects[k]))
    THEN Some([k \in 1..Len(objects) |-> Unwrap(deserialize(objects[k]))])
    ELSE None

\* #[derive(Deserialize)] on Task: details defaults to "", detailsDoc is
\* optional, every other field is required.
deserialize_task(object) ==
    IF /\ {"id", "title", "status", "tags", "version", "createdAt", "updatedAt",
           "reports"} \subseteq DOMAIN object
       /\ IsSome(DeserializeAll(object.reports, deserialize_report))
    THEN Some([id |-> object.id, title |-> object.title,
               details |-> IF "details" \in DOMAIN object THEN object.details ELSE "",
               details_doc |-> OptionField(object, "detailsDoc"),
               status |-> object.status, tags |-> object.tags,
               version |-> object.version, created_at |-> object.createdAt,
               updated_at |-> object.updatedAt,
               reports |-> Unwrap(DeserializeAll(object.reports, deserialize_report))])
    ELSE None

serialize_task(task) ==
    [id |-> task.id, title |-> task.title, details |-> task.details,
     status |-> task.status, tags |-> task.tags, version |-> task.version,
     createdAt |-> task.created_at, updatedAt |-> task.updated_at,
     reports |-> [k \in 1..Len(task.reports) |-> serialize_report(task.reports[k])]]
      @@ SkipNone("detailsDoc", task.details_doc)

\* TagLabel and TagDefinition: every field optional.
deserialize_label(object) ==
    [zh |-> OptionField(object, "zh"), en |-> OptionField(object, "en")]

serialize_label(label) == SkipNone("zh", label.zh) @@ SkipNone("en", label.en)

deserialize_definition(object) ==
    [color |-> OptionField(object, "color"), icon |-> OptionField(object, "icon"),
     label |-> IF IsSome(OptionField(object, "label"))
               THEN Some(deserialize_label(object.label)) ELSE None]

serialize_definition(definition) ==
    SkipNone("color", definition.color) @@ SkipNone("icon", definition.icon)
      @@ (IF IsSome(definition.label)
          THEN [k \in {"label"} |-> serialize_label(Unwrap(definition.label))]
          ELSE <<>>)

\* #[derive(Deserialize)] on Project: workerKind is optional, tagCatalog
\* defaults to the empty map, every other field is required.
deserialize_project(object) ==
    IF /\ {"id", "name", "version", "directory", "tasks"} \subseteq DOMAIN object
       /\ IsSome(DeserializeAll(object.tasks, deserialize_task))
    THEN Some([id |-> object.id, name |-> object.name, version |-> object.version,
               directory |-> object.directory,
               worker_kind |-> OptionField(object, "workerKind"),
               tasks |-> Unwrap(DeserializeAll(object.tasks, deserialize_task)),
               tag_catalog |->
                   IF "tagCatalog" \in DOMAIN object
                   THEN [t \in DOMAIN object.tagCatalog |->
                            deserialize_definition(object.tagCatalog[t])]
                   ELSE <<>>])
    ELSE None

serialize_project(project) ==
    [id |-> project.id, name |-> project.name, version |-> project.version,
     directory |-> project.directory,
     tasks |-> [k \in 1..Len(project.tasks) |-> serialize_task(project.tasks[k])],
     tagCatalog |-> [t \in DOMAIN project.tag_catalog |->
                        serialize_definition(project.tag_catalog[t])]]
      @@ SkipNone("workerKind", project.worker_kind)

\* serde_json::from_str::<Vec<Project>>(&raw).ok()
from_str(json) == DeserializeAll(json, deserialize_project)

\* serde_json::to_string_pretty(projects)
to_string_pretty(ps) == [k \in 1..Len(ps) |-> serialize_project(ps[k])]

\* read_state() on a file that exists and is read: unwrap_or_default().
read_state_json(json) == IF IsSome(from_str(json)) THEN Unwrap(from_str(json)) ELSE <<>>

\* write_state(): the text replaces the file.
write_state_json(ps) == to_string_pretty(ps)

\* The documents: the report, task, definition and project objects below,
\* as the server writes them and as another writer of the file may leave them.
ReportJson == [id |-> "r1", author |-> "mcp", content |-> "fixed", createdAt |-> "t1"]

TaskJson ==
    [id |-> "A", title |-> "Task A", details |-> "text", status |-> "todo",
     tags |-> <<"ui">>, version |-> "0.1.0", createdAt |-> "t0", updatedAt |-> "t1",
     reports |-> <<ReportJson>>]

TaskJsons ==
    {TaskJson,
     Without(TaskJson, "details"),
     TaskJson @@ [detailsDoc |-> JsonString("doc")],
     TaskJson @@ [detailsDoc |-> JsonNull],
     TaskJson @@ [estimate |-> JsonString("2h")],
     [TaskJson EXCEPT !.reports = <<ReportJson @@ [pinned |-> JsonString("yes")]>>],
     Without(TaskJson, "status")}

DefinitionJsons ==
    {[icon |-> JsonString("mingcute:tag-line")],
     [icon |-> JsonString("mingcute:tag-line"), color |-> JsonNull],
     [color |-> JsonString("red"),
      label |-> [zh |-> JsonString("jiemian"), en |-> JsonString("UI")]],
     [icon |-> JsonString("mingcute:tag-line"), order |-> JsonString("1")]}

ProjectJson(tasks) ==
    [id |-> "p1", name |-> "Demo", version |-> "0.1.0", directory |-> "/srv/demo",
     tasks |-> tasks, tagCatalog |-> <<>>]

ProjectJsons ==
    {ProjectJson(<<t>>) : t \in TaskJsons}
      \cup {ProjectJson(<<TaskJson, t>>) : t \in TaskJsons}
      \cup {Without(ProjectJson(<<>>), "tagCatalog"),
            ProjectJson(<<>>) @@ [workerKind |-> JsonString("codex")],
            ProjectJson(<<>>) @@ [workerKind |-> JsonNull],
            ProjectJson(<<>>) @@ [archived |-> JsonString("no")]}
      \cup {[ProjectJson(<<TaskJson>>) EXCEPT !.tagCatalog = [t \in {"ui"} |-> d]] :
               d \in DefinitionJsons}

\* Passes of load-and-save over one file.
MaxPasses == 2

\* `projects` is the text of the file, `local` the text it started with and
\* the number of passes made.
InitJson ==
    /\ projects \in {<<>>} \cup {<<p>> : p \in ProjectJsons}
                      \cup {<<ProjectJson(<<>>), p>> : p \in ProjectJsons}
    /\ signal = None
    /\ events = <<>>
    /\ clock = 0
    /\ request = NoRequest
    /\ response = NoResponse
    /\ pc = 0
    /\ local = projects

\* write_state(&read_state())
SaveLoaded ==
    /\ pc < MaxPasses
    /\ projects' = write_state_json(read_state_json(projects))
    /\ pc' = pc + 1
    /\ UNCHANGED <<signal, events, clock, request, response, local>>

NextJson == SaveLoaded

SpecJson == InitJson /\ [][NextJson]_vars

\* C27: loading a parseable document and saving the result leaves the text
\* of the file as it was: the same projects, tasks, reports and tag
\* definitions, with the same keys and values on each.
C27_SaveLoadedIsNoOp ==
    [][IsSome(from_str(projects)) => projects' = projects]_vars

\* C27, the case: the file held a task with a key that is no field of Task;
\* after one pass the task has lost it, and a second pass changed nothing more.
C27_Witness ==
    /\ pc = 2
    /\ local = <<ProjectJson(<<TaskJson @@ [estimate |-> JsonString("2h")]>>)>>
    /\ IsSome(from_str(local))
    /\ projects = <<ProjectJson(<<TaskJson>>)>>
    /\ projects = write_state_json(read_state_json(local))

\* Saving what was loaded a second time writes the text the first pass wrote.
SecondPassChangesNothing == [][pc = 1 => projects' = projects]_vars
---------------------------------------------------------------------------
(* query_project_todos against a document whose tasks change status and age *)

\* Reports that make a task a draft, pending again, or done.
TodoSubmitArgs ==
    {[project |-> <<"d","e","m","o">>, task_id |-> "A", report |-> "r1",
      status |-> "draft"],
     [project |-> <<"d","e","m","o">>, task_id |-> "A", report |-> "r1"],
     [project |-> <<"d","e","m","o">>, task_id |-> "B", report |-> "r2",
      status |-> "rework"],
     [project |-> <<"o","t","h","e","r">>, task_id |-> "C", report |-> "r1",
      status |-> "done"]}

TodoQueries == {DemoName, OtherName, EmptyName, <<"z","z">>}

QueryProjectTodos ==
    \E q \in TodoQueries :
        /\ Answer(ToolsCall("query_project_todos", [project |-> q]), 0, 0)
        /\ UNCHANGED <<pc, local>>

SubmitStatus ==
    \E a \in TodoSubmitArgs :
        /\ TotalReports(projects) < MaxReports
        /\ Answer(ToolsCall("submit_task_report", a), 0, 0)
        /\ UNCHANGED <<pc, local>>

NextTodos == QueryProjectTodos \/ SubmitStatus \/ Tick

SpecTodos == Init /\ [][NextTodos]_vars

\* The task of `tasks` with the id `id`.
TaskById(tasks, id) == tasks[CHOOSE j \in 1..Len(tasks) : tasks[j].id = id]

\* C28: query_project_todos on a project that resolves lists each task whose
\* status is neither draft nor done once and no other task, a task updated
\* later before a task updated earlier; when no task is pending the answer is
\* a plain text result saying so, not an error.  The call leaves the
\* document, the signal file and the event bus alone.
C28_TodosArePendingTasksNewestFirst ==
    [][IsToolsCall(request', "query_project_todos") =>
          /\ projects' = projects /\ signal' = signal /\ events' = <<>>
          /\ find_project_index(projects, request'.params.arguments.project) # None =>
               LET tasks == projects[Unwrap(find_project_index(
                                 projects, request'.params.arguments.project))].tasks
                   pending == {j \in 1..Len(tasks) : tasks[j].status \notin {"draft", "done"}}
                   text == ResultText(response')
               IN  /\ Accepted(response')
                   /\ IF pending = {} THEN text.fmt = "no_todos"
                      ELSE /\ text.fmt = "todos"
                           /\ Len(text.lines) = Cardinality(pending)
                           /\ text.count = Cardinality(pending)
                           /\ {text.lines[k].id : k \in 1..Len(text.lines)}
                                 = {tasks[j].id : j \in pending}
                           /\ \A k \in 1..(Len(text.lines) - 1) :
                                 TaskById(tasks, text.lines[k].id).updated_at
                                   >= TaskById(tasks, text.lines[k + 1].id).updated_at
      ]_vars

\* C28, the case: two tasks are pending and the one that stands second in the
\* document was updated later, so it is listed first.
C28_Witness ==
    /\ IsToolsCall(request, "query_project_todos")
    /\ Accepted(response)
    /\ ResultText(response).fmt = "todos"
    /\ Len(ResultText(response).lines) = 2
    /\ ResultText(response).lines[1].id = "B"
    /\ projects[1].tasks[1].id = "A"
    /\ projects[1].tasks[2].updated_at > projects[1].tasks[1].updated_at

\* C28, the case: the project holds tasks, all of them draft or done, and the
\* answer is the text that says nothing is pending.
C28_NothingPending ==
    /\ IsToolsCall(request, "query_project_todos")
    /\ Accepted(response)
    /\ ResultText(response).fmt = "no_todos"
    /\ projects[1].tasks[1].status = "draft"
    /\ ResultText(response).project = DemoName
---------------------------------------------------------------------------
(* One worker session byte by byte: the child writes UTF-8 text to its two
   pipes, each reader thread reads what is there into its buffer, turns the
   bytes read into a string and emits it.  A string is the sequence of its
   characters, a character the sequence of its UTF-8 bytes. *)

\* U+FFFD REPLACEMENT CHARACTER
Replacement == <<239, 191, 189>>

\* The number of continuation bytes a first byte announces; -1 for a byte
\* that starts no character.
Continuations(byte) ==
    CASE byte < 128 -> 0
      [] byte \in 194..223 -> 1
      [] byte \in 224..239 -> 2
      [] byte \in 240..244 -> 3
      [] OTHER -> -1

RECURSIVE ContinuationRun(_, _)
\* How many of the first `most` bytes of `bytes` are continuation bytes.
ContinuationRun(bytes, most) ==
    IF most = 0 \/ bytes = <<>> \/ Head(bytes) \notin 128..191 THEN 0
    ELSE 1 + ContinuationRun(Tail(bytes), most - 1)

RECURSIVE from_utf8_lossy(_)
\* String::from_utf8_lossy(bytes): every well-formed character as it is,
\* every ill-formed run (a byte that starts nothing, a character cut short)
\* as one U+FFFD.  The narrower second-byte ranges after E0, ED, F0 and F4
\* are left out; no text of the model uses these first bytes.
from_utf8_lossy(bytes) ==
    IF bytes = <<>> THEN <<>>
    ELSE LET need == Continuations(Head(bytes))
             run == ContinuationRun(Tail(bytes), IF need < 0 THEN 0 ELSE need)
         IN  IF need >= 0 /\ run = need
             THEN <<SubSeq(bytes, 1, 1 + need)>>
                    \o from_utf8_lossy(SubSeq(bytes, 2 + need, Len(bytes)))
             ELSE <<Replacement>>
                    \o from_utf8_lossy(SubSeq(bytes, 2 + run, Len(bytes)))

\* let mut buffer = [0u8; 4096], scaled down.
BufferLen == 2

\* The bytes a child writes over its life, both streams together.
MaxOutput == 4

\* What the child writes in one piece: "a", e with acute accent (2 bytes),
\* a CJK character (3 bytes).
Writes == {<<97>>, <<195, 169>>, <<228, 184, 173>>}

\* `local`: per stream the bytes the child has written so far, the bytes in
\* the pipe, whether the write end is closed and whether the reader still
\* runs; and every log event emitted, in the order of emission.
InitStream ==
    /\ projects = <<>>
    /\ signal = None
    /\ events = <<>>
    /\ clock = 0
    /\ request = NoRequest
    /\ response = NoResponse
    /\ pc = [s \in Streams |-> "reading"]
    /\ local = [output |-> [s \in Streams |-> <<>>],
                pipe |-> [s \in Streams |-> <<>>],
                closed |-> FALSE,
                log |-> <<>>]

\* The child writes a piece of text to one of its pipes.
WriteBytes ==
    \E s \in Streams, bytes \in Writes :
        /\ ~local.closed
        /\ Len(local.output["stdout"]) + Len(local.output["stderr"]) + Len(bytes)
              <= MaxOutput
        /\ local' = [local EXCEPT !.output[s] = @ \o bytes, !.pipe[s] = @ \o bytes]
        /\ events' = <<>>
        /\ UNCHANGED <<projects, signal, clock, request, response, pc>>

\* The child exits; the write ends of its pipes close.
CloseStreams ==
    /\ ~local.closed
    /\ local' = [local EXCEPT !.closed = TRUE]
    /\ events' = <<>>
    /\ UNCHANGED <<projects, signal, clock, request, response, pc>>

\* stream_chunks_app, Ok(size): read() returns between one byte and as many
\* as are there and fit the buffer; the chunk is emitted.
ReadBytes ==
    \E s \in Streams :
      \E size \in 1..(IF Len(local.pipe[s]) < BufferLen THEN Len(local.pipe[s])
                      ELSE BufferLen) :
        /\ pc[s] = "reading"
        /\ \E chunk \in {from_utf8_lossy(SubSeq(local.pipe[s], 1, size))} :
              /\ events' = <<WorkerLogEvent("w1", s, chunk)>>
              /\ local' = [local EXCEPT
                             !.pipe[s] = SubSeq(@, size + 1, Len(@)),
                             !.log = Append(@, WorkerLogEvent("w1", s, chunk))]
        /\ UNCHANGED <<projects, signal, clock, request, response, pc>>

\* stream_chunks_app, Ok(0): the pipe is empty and closed; the loop ends.
ReadZero ==
    \E s \in Streams :
        /\ pc[s] = "reading"
        /\ local.pipe[s] = <<>>
        /\ local.closed
        /\ pc' = [pc EXCEPT ![s] = "finished"]
        /\ events' = <<>>
        /\ UNCHANGED <<projects, signal, clock, request, response, local>>

NextStream == WriteBytes \/ CloseStreams \/ ReadBytes \/ ReadZero

SpecStream == InitStream /\ [][NextStream]_vars

\* The chunks of the log events of stream s, in the order of emission.
LogChunks(s) ==
    LET OfStream(e) == e.stream = s
        es == SelectSeq(local.log, OfStream)
    IN  [k \in 1..Len(es) |-> es[k].line]

\* C29: once the reader of a stream has read the stream to its end, the
\* chunks of the stream's log events, concatenated in the order of emission,
\* are the text the child wrote to that stream.
C29_ChunksReproduceStream ==
    \A s \in Streams :
        pc[s] = "finished" =>
            Concat(LogChunks(s)) = from_utf8_lossy(local.output[s])

\* C29, the case: the child wrote "a" and one CJK character to stdout, the
\* reader took them in two reads of two bytes, and the two chunks hold "a"
\* and three replacement characters instead.
C29_Witness ==
    /\ pc["stdout"] = "finished"
    /\ local.output["stdout"] = <<97, 228, 184, 173>>
    /\ LogChunks("stdout") = <<<<<<97>>, Replacement>>, <<Replacement, Replacement>>>>
---------------------------------------------------------------------------
(* The completion gate, task by task *)

\* C30: finish_worker on a project that resolves is accepted when no task of
\* the project has a status other than draft, done, blocked and need_info,
\* drafts included; otherwise it is refused, and the refusal counts exactly
\* the tasks with another status, whatever that status is (todo, queued,
\* in_progress, rework, or a label outside the vocabulary).
C30_DraftPassesOtherStatusesRefuse ==
    (IsToolsCall(request, "finish_worker") /\ Resolved(request, projects) # 0) =>
        LET tasks == projects[Resolved(request, projects)].tasks
            others == {j \in 1..Len(tasks) :
                          tasks[j].status \notin {"draft", "done", "blocked", "need_info"}}
        IN  IF others = {} THEN Accepted(response)
            ELSE /\ Refused(response)
                 /\ ResultText(response).fmt = "unresolved"
                 /\ ResultText(response).count = Cardinality(others)
                 /\ \A k \in 1..Len(ResultText(response).lines) :
                       ResultText(response).lines[k].status
                          \notin {"draft", "done", "blocked", "need_info"}

\* C30, the case: Demo holds a draft and a task with a label outside the
\* vocabulary; finish_worker is refused for the one task, the draft is not
\* counted.
C30_Witness ==
    /\ IsToolsCall(request, "finish_worker")
    /\ Resolved(request, projects) = 1
    /\ Refused(response)
    /\ projects[1].tasks[1].status = "draft"
    /\ projects[1].tasks[2].status = "unlisted"
    /\ ResultText(response).count = 1
    /\ ResultText(response).lines[1].id = "B"

\* C30, the case: every task of Demo is a draft and finish_worker is accepted.
C30_AllDrafts ==
    /\ IsToolsCall(request, "finish_worker")
    /\ Resolved(request, projects) = 1
    /\ Accepted(response)
    /\ \A j \in 1..Len(projects[1].tasks) : projects[1].tasks[j].status = "draft"
---------------------------------------------------------------------------
(* submit_task_report from file to file: state.json is read into the structs,
   the handler changes them, and the structs are written back.  `projects`
   is the text of the file. *)

\* Demo holds two tasks with the id A; Other holds a task with the id A too.
\* No task has a detailsDoc.
FrameTask(task) == task @@ [details_doc |-> None]

FrameProjects ==
    <<Project("p1", DemoName, <<"C",":","\\","d","e","m","o">>,
              <<FrameTask(Task("A", "Task A", "todo", <<>>, 0, <<>>)),
                FrameTask(Task("A", "Task A again", "queued", <<>>, 0, <<>>)),
                FrameTask(Task("B", "Task B", "done", <<>>, 0, <<>>))>>, EmptyCatalog),
      Project("p2", OtherName, <<"/","s","r","v","/","o","t","h","e","r">>,
              <<FrameTask(Task("A", "Task A of Other", "in_progress", <<>>, 0, <<>>))>>,
              EmptyCatalog)>>

\* The file as the server writes it, and the same documents with a key that
\* another writer of the file left on a task of Demo or on the project Other.
FrameFiles ==
    {to_string_pretty(FrameProjects),
     [to_string_pretty(FrameProjects) EXCEPT
        ![1].tasks[3] = @ @@ [estimate |-> JsonString("2h")]],
     [to_string_pretty(FrameProjects) EXCEPT
        ![2] = @ @@ [archived |-> JsonString("no")]]}

FrameArgs ==
    {[project |-> <<"d","e","m","o">>, task_id |-> "A", report |-> "r1"],
     [project |-> <<"d","e","m","o">>, task_id |-> "A", report |-> "r2",
      status |-> "done"],
     [project |-> <<"d","e","m","o">>, task_id |-> "B", report |-> "r1",
      status |-> "rework"],
     [project |-> <<"o","t","h","e","r">>, task_id |-> "A", report |-> "r1"],
     [project |-> <<"d","e","m","o">>, task_id |-> "C", report |-> "r1"]}

\* `local` keeps the text the file had at the start.
InitFile ==
    /\ projects \in FrameFiles
    /\ signal = None
    /\ events = <<>>
    /\ clock = 0
    /\ request = NoRequest
    /\ response = NoResponse
    /\ pc = <<>>
    /\ local = projects

\* POST /mcp tools/call submit_task_report: read_state, the handler,
\* write_state when the handler writes.
SubmitToFile ==
    \E a \in FrameArgs :
        /\ TotalReports(projects) < MaxReports
        /\ \E out \in {handle_mcp_post(ToolsCall("submit_task_report", a),
                                       read_state_json(projects), clock, clock)} :
              /\ projects' = IF IsSome(out.effects.write)
                             THEN write_state_json(Unwrap(out.effects.write))
                             ELSE projects
              /\ events' = out.effects.events
              /\ request' = ToolsCall("submit_task_report", a)
              /\ response' = [status |-> out.status, json |-> out.json]
        /\ UNCHANGED <<signal, clock, pc, local>>

NextFile == SubmitToFile \/ Tick

SpecFile == InitFile /\ [][NextFile]_vars

\* The index of the project the call resolves in the file.
FileTarget(req, json) ==
    Unwrap(find_project_index(read_state_json(json), req.params.arguments.project))

\* The index of the first task of `tasks` with the id of the call.
FirstTask(req, tasks) ==
    SetMin({j \in 1..Len(tasks) : tasks[j].id = req.params.arguments.task_id})

\* Across the step every project but the i-th and every task of the i-th
\* project but the j-th is in the file as it was, and the j-th task differs
\* at most in its reports, updatedAt, status and tags.
OnlyTaskChanged(i, j) ==
    /\ Len(projects') = Len(projects)
    /\ \A p \in 1..Len(projects) : p # i => projects'[p] = projects[p]
    /\ Without(Without(projects'[i], "tasks"), "tagCatalog")
          = Without(Without(projects[i], "tasks"), "tagCatalog")
    /\ Len(projects'[i].tasks) = Len(projects[i].tasks)
    /\ \A t \in 1..Len(projects[i].tasks) :
          t # j => projects'[i].tasks[t] = projects[i].tasks[t]
    /\ \A k \in (DOMAIN projects[i].tasks[j]) \cup (DOMAIN projects'[i].tasks[j]) :
          k \notin {"reports", "updatedAt", "status", "tags"} =>
              /\ k \in DOMAIN projects[i].tasks[j]
              /\ k \in DOMAIN projects'[i].tasks[j]
              /\ projects'[i].tasks[j][k] = projects[i].tasks[j][k]
    /\ projects'[i].tasks[j].reports # projects[i].tasks[j].reports

\* C31: a successful submit_task_report changes, in the file, only the first
\* task with the given id in the project it resolves (its reports, updatedAt,
\* status and tags) and that project's tag catalog; every other task of the
\* project and every other project are in the file as they were.
C31_OnlyNamedTaskAndCatalogChange ==
    [][(IsToolsCall(request', "submit_task_report") /\ Accepted(response')) =>
          OnlyTaskChanged(FileTarget(request', projects),
                          FirstTask(request',
                                    projects[FileTarget(request', projects)].tasks))]_vars

\* The file holds no key but those the server writes.
ServerWritten(json) == write_state_json(read_state_json(json)) = json

\* The frame of C31 on files that hold only the keys the server writes.
FrameOnServerWrittenFile ==
    [][(ServerWritten(projects) /\ IsToolsCall(request', "submit_task_report")
          /\ Accepted(response')) =>
          OnlyTaskChanged(FileTarget(request', projects),
                          FirstTask(request',
                                    projects[FileTarget(request', projects)].tasks))]_vars

\* C31, the case: a report on task A of Demo succeeded, and the project
\* Other, which the call did not name, is in the file without the key
\* another writer had left on it.
C31_Witness ==
    /\ IsToolsCall(request, "submit_task_report")
    /\ Accepted(response)
    /\ request.params.arguments.project = <<"d","e","m","o">>
    /\ Len(projects[1].tasks[1].reports) = 1
    /\ projects[1].tasks[2].reports = <<>>
    /\ "archived" \notin DOMAIN projects[2]
    /\ "archived" \in DOMAIN local[2]
    /\ projects[2] = Without(local[2], "archived")
---------------------------------------------------------------------------
(* Refused writes *)

\* C32: a submit_task_report that is refused (no project resolves, or no task
\* of the project has the id) and an upsert_tag_definition that is refused
\* (blank tag, icon outside mingcute, or no project resolves) leave the
\* document and the signal file as they are and emit no event.
C32_RefusedWritesChangeNothing ==
    [][(IsCall(request')
          /\ ToolName(request') \in {"submit_task_report", "upsert_tag_definition"}
          /\ ~Accepted(response')) =>
          /\ Refused(response')
          /\ ResultText(response').fmt \in
                {"project_not_found", "task_not_found", "tag_empty", "icon_not_mingcute"}
          /\ projects' = projects
          /\ signal' = signal
          /\ events' = <<>>]_vars

\* C32, the case: an upsert with an icon outside mingcute was refused while
\* the document holds the project and its tasks.
C32_Witness ==
    /\ IsCall(request)
    /\ ToolName(request) = "upsert_tag_definition"
    /\ Refused(response)
    /\ ResultText(response).fmt = "icon_not_mingcute"
    /\ projects = McpProjects
    /\ events = <<>>

\* The other refusals of C32 happen.
RefusalsReached(tool_name, fmt) ==
    /\ IsCall(request)
    /\ ToolName(request) = tool_name
    /\ Refused(response)
    /\ ResultText(response).fmt = fmt
---------------------------------------------------------------------------
(* Notifications run no tool *)

\* C33: a request whose id is absent or null is answered 202 without running
\* a tool, whatever its method and params: the document and the signal file
\* are as they were and no event is emitted.
C33_NotificationRunsNoTool ==
    [][IsNotification(request') =>
          /\ response'.status = 202
          /\ ~HasResult(response')
          /\ projects' = projects
          /\ signal' = signal
          /\ events' = <<>>]_vars

\* C33, the case: a tools/call notification with the id null for a
\* finish_worker that would be accepted with an id (the project has no tasks)
\* was answered, and no signal file was written.
C33_Witness ==
    /\ Answered
    /\ request.id = Some(JsonNull)
    /\ request.method = "tools/call"
    /\ ToolName(request) = "finish_worker"
    /\ IsSome(handle_mcp_post([request EXCEPT !.id = Some(JsonNumber(1))],
                              projects, 0, 0).effects.signal)
    /\ signal = None
    /\ projects = McpProjects

\* The notifications of the two writing tools are answered too.
NotifiedWrite(tool_name) ==
    /\ Answered
    /\ IsNotification(request)
    /\ request.method = "tools/call"
    /\ ToolName(request) = tool_name
    /\ IsSome(handle_mcp_post([request EXCEPT !.id = Some(JsonNumber(1))],
                              projects, 0, 0).effects.write)
    /\ projects = McpProjects
---------------------------------------------------------------------------
(* finish_worker overlapping with submit_task_report: two handlers on the
   store without a lock, each reading the document and acting on its copy *)

\* Handler 1 serves finish_worker for Demo, handler 2 reports on Demo's tasks.
GateRaceCalls(h) ==
    IF h = 1
    THEN {ToolsCall("finish_worker", [project |-> <<"d","e","m","o">>,
                                      summary |-> "all done"])}
    ELSE {ToolsCall("submit_task_report",
                    [project |-> <<"d","e","m","o">>, task_id |-> t, report |-> "r2",
                     status |-> st]) : t \in {"A", "B"}, st \in {"done", "rework"}}

\* Handler h takes a request and reads the document (read_state).
GateRaceRead(h) ==
    /\ pc[h] = "idle"
    /\ TotalReports(projects) < MaxReports
    /\ \E body \in GateRaceCalls(h) :
         local' = [local EXCEPT ![h] = [Idle EXCEPT
                       !.body = body, !.ps = read_state(projects)]]
    /\ pc' = [pc EXCEPT ![h] = "read"]
    /\ events' = <<>>
    /\ request' = NoRequest
    /\ response' = NoResponse
    /\ UNCHANGED <<projects, signal, clock>>

\* Handler h acts on its copy: the gate, the signal file and the event of
\* finish_worker, or the mutation, write_state and the events of
\* submit_task_report; it answers and is free for the next request.
GateRaceAct(h) ==
    /\ pc[h] = "read"
    /\ Respond(local[h].body, handle_mcp_post(local[h].body, local[h].ps, clock, clock))
    /\ local' = [local EXCEPT ![h].answer = response']
    /\ pc' = [pc EXCEPT ![h] = "idle"]
    /\ UNCHANGED clock

NextGateRace == \E h \in Handlers : GateRaceRead(h) \/ GateRaceAct(h)

SpecGateRace == InitRace /\ [][NextGateRace]_vars

\* C34: whenever a worker-finished event is emitted for a project, no task
\* of that project in the document on the disk is unresolved.
C34_FinishedEventMeansGateHolds ==
    \A k \in 1..Len(events) :
        events[k].name = "maple://worker-finished" =>
            \A i \in 1..Len(projects) :
                projects[i].name = events[k].project =>
                    unresolved_tasks(projects[i].tasks) = <<>>

\* C34, the case: finish_worker read Demo with every task done, a report then
\* put task B back to rework, and the event was emitted after that write.
C34_Witness ==
    /\ Len(events) = 1
    /\ events[1].name = "maple://worker-finished"
    /\ events[1].project = DemoName
    /\ unresolved_tasks(local[1].ps[1].tasks) = <<>>
    /\ projects[1].tasks[2].status = "rework"
    /\ Accepted(local[1].answer)
    /\ signal # None
---------------------------------------------------------------------------
(* Two sessions under one workerId: what the insert of the one and the
   cleanup of the other do to the entry of a process that still runs. *)

\* The process of call r runs, and the table holds its stdin under its
\* workerId.
RunningWithEntry(state, r) ==
    /\ state.run[r].child = "running"
    /\ state.run[r].registered
    /\ state.run[r].worker_id \in DOMAIN state.sessions
    /\ state.sessions[state.run[r].worker_id] = ManagedWorkerSession(Some(r))

\* C35: while the process of an interactive worker runs, the entry of its
\* session stays in the table, with the stdin of that process, until
\* stop_worker_session is called for its workerId: no other step removes or
\* replaces it, a start or an exit of another session with the same workerId
\* included.
C35_EntryLeavesOnlyByStop ==
    [][\A r \in Runs :
         (RunningWithEntry(local, r) /\ local'.run[r].child = "running")
           => \/ RunningWithEntry(local', r)
              \/ /\ request'.op = "stop_worker_session"
                 /\ request'.worker_id = local.run[r].worker_id]_vars

\* The second session was started under the workerId of the first, its
\* process runs and waits to be written to, and the first call is past its
\* remove: the table holds no entry for the workerId.
C35_Witness ==
    /\ local.run[1].worker_id = "w1" /\ local.run[2].worker_id = "w1"
    /\ local.run[2].child = "running" /\ local.run[2].registered
    /\ Statement(2) = "wait"
    /\ Statement(1) = "emit_done"
    /\ request = NoCommand
    /\ "w1" \notin DOMAIN local.sessions
---------------------------------------------------------------------------
(* The lock of the session table (main.rs): state.worker_sessions is one
   Mutex for all sessions.  Two calls of start_interactive_worker with
   different workerIds, and per workerId one caller of the commands.  Here
   `pc.start[r]` is the next statement of call r, `pc.cmd[r]` where the
   command for the workerId of call r stands, `local.lock` the command that
   holds the guard of the table (0: none), `local.pending[r]` the command
   issued, and `local.run[r].pipe` what is in the stdin pipe of child r. *)

\* What the stdin pipe of a child takes before a write to it blocks, in
\* inputs.
PipeCapacity == 1

LockWorkerId(r) == IF r = 1 THEN "w1" ELSE "w2"

LockStatement(r) ==
    IF pc.start[r] \in 1..Len(start_interactive_worker)
    THEN start_interactive_worker[pc.start[r]] ELSE "none"

LockReturned(r) == pc.start[r] = Len(start_interactive_worker) + 1

LockCommands(r) ==
    {[op |-> "send_worker_input", worker_id |-> LockWorkerId(r), input |-> "text",
      append_newline |-> None],
     [op |-> "stop_worker_session", worker_id |-> LockWorkerId(r)]}

InitLock ==
    /\ projects = <<>>
    /\ signal = None
    /\ events = <<>>
    /\ clock = 0
    /\ request = NoCommand
    /\ response = NoCommand
    /\ pc = [start |-> [r \in Runs |-> 0], cmd |-> [r \in Runs |-> "idle"]]
    /\ local = [sessions |-> EmptySessions, lock |-> 0,
                run |-> [r \in Runs |->
                           [worker_id |-> LockWorkerId(r), child |-> "none",
                            status |-> None, pipe |-> 0, registered |-> FALSE,
                            dones |-> 0]],
                pending |-> [r \in Runs |-> NoCommand]]

\* A step that answers no command.
LockQuiet(emitted) ==
    /\ events' = emitted
    /\ request' = NoCommand
    /\ response' = NoCommand
    /\ UNCHANGED <<projects, signal, clock>>

\* A statement of call r that does not touch the table: the spawn (a spawn
\* that fails returns), the start of the two readers, child.wait() (which
\* returns the status once the process has exited, or fails and returns the
\* error), the
\* joins (the readers end when the process has closed its pipes) and the emit
\* of the done event.
StartStatement(r) ==
    /\ \/ /\ pc.start[r] = 0
          /\ \E spawned \in BOOLEAN :
                 IF spawned
                 THEN /\ pc' = [pc EXCEPT !.start[r] = 1]
                      /\ local' = [local EXCEPT !.run[r].child = "running"]
                 ELSE /\ pc' = [pc EXCEPT !.start[r] = Len(start_interactive_worker) + 1]
                      /\ UNCHANGED local
          /\ LockQuiet(<<>>)
       \/ /\ LockStatement(r) \in {"spawn_stdout_reader", "spawn_stderr_reader"}
          /\ pc' = [pc EXCEPT !.start[r] = @ + 1]
          /\ UNCHANGED local
          /\ LockQuiet(<<>>)
       \/ /\ LockStatement(r) = "wait"
          /\ \/ /\ local.run[r].child = "exited"
                /\ pc' = [pc EXCEPT !.start[r] = @ + 1]
                /\ \E status \in ExitStatuses :
                       local' = [local EXCEPT !.run[r].status = Some(status)]
             \/ /\ pc' = [pc EXCEPT !.start[r] = Len(start_interactive_worker) + 1]
                /\ UNCHANGED local
          /\ LockQuiet(<<>>)
       \/ /\ LockStatement(r) \in {"join_stdout", "join_stderr"}
          /\ local.run[r].child = "exited"
          /\ pc' = [pc EXCEPT !.start[r] = @ + 1]
          /\ UNCHANGED local
          /\ LockQuiet(<<>>)
       \/ /\ LockStatement(r) = "emit_done"
          /\ pc' = [pc EXCEPT !.start[r] = @ + 1]
          /\ local' = [local EXCEPT !.run[r].dones = @ + 1]
          /\ LockQuiet(<<WorkerDoneEvent(local.run[r].worker_id,
                                         Unwrap(local.run[r].status).success,
                                         Unwrap(local.run[r].status).code)>>)

\* state.worker_sessions.lock() of call r, with sessions.insert(..) or
\* sessions.remove(&wid) and the end of the block that drops the guard: the
\* statement waits until no one holds the guard.
StartLocked(r) ==
    /\ local.lock = 0
    /\ \/ /\ LockStatement(r) = "insert"
          /\ local' = [local EXCEPT
               !.sessions = HashMapInsert(@, local.run[r].worker_id,
                                          ManagedWorkerSession(Some(r))),
               !.run[r].registered = TRUE]
       \/ /\ LockStatement(r) = "remove"
          /\ local' = [local EXCEPT
               !.sessions = HashMapRemove(@, local.run[r].worker_id)]
    /\ pc' = [pc EXCEPT !.start[r] = @ + 1]
    /\ LockQuiet(<<>>)

\* The UI invokes a command for the workerId of call r.
IssueCommand(r) ==
    \E command \in LockCommands(r) :
        /\ pc.cmd[r] = "idle"
        /\ pc' = [pc EXCEPT !.cmd[r] = "lock"]
        /\ local' = [local EXCEPT !.pending[r] = command]
        /\ LockQuiet(<<>>)

\* The command returns: the guard is dropped with it.
LockAnswer(r, out) ==
    /\ request' = local.pending[r]
    /\ response' = [result |-> out.result, written |-> out.written]
    /\ events' = <<>>
    /\ pc' = [pc EXCEPT !.cmd[r] = "idle"]
    /\ UNCHANGED <<projects, signal, clock>>

\* state.worker_sessions.lock() of a command, once no one holds the guard.
\* stop_worker_session removes and returns.  send_worker_input looks the
\* session up and returns its error, or goes on to write with the guard held.
CommandLocks(r) ==
    /\ pc.cmd[r] = "lock"
    /\ local.lock = 0
    /\ IF local.pending[r].op = "stop_worker_session"
       THEN \E out \in {stop_worker_session(local.sessions, local.pending[r].worker_id)} :
                /\ local' = [local EXCEPT !.sessions = out.sessions,
                                          !.pending[r] = NoCommand]
                /\ LockAnswer(r, out)
       ELSE IF \/ local.pending[r].worker_id \notin DOMAIN local.sessions
               \/ local.sessions[local.pending[r].worker_id].stdin = None
       THEN \E out \in {send_worker_input(local.sessions, local.run,
                                          local.pending[r].worker_id,
                                          local.pending[r].input,
                                          local.pending[r].append_newline)} :
                /\ local' = [local EXCEPT !.pending[r] = NoCommand]
                /\ LockAnswer(r, out)
       ELSE /\ local' = [local EXCEPT !.lock = r]
            /\ pc' = [pc EXCEPT !.cmd[r] = "write_all"]
            /\ LockQuiet(<<>>)

\* The child whose stdin the send of command r writes to.
WriteTarget(r) == Unwrap(local.sessions[local.pending[r].worker_id].stdin)

\* stdin.write_all(..) with the guard held: it returns when the pipe has taken
\* the bytes or the read end is closed, and blocks while the pipe is full.
\* Then the flush, Ok(true) and the drop of the guard.
CommandWrites(r) ==
    /\ pc.cmd[r] = "write_all"
    /\ \/ local.run[WriteTarget(r)].child # "running"
       \/ local.run[WriteTarget(r)].pipe < PipeCapacity
    /\ \E out \in {send_worker_input(local.sessions, local.run,
                                     local.pending[r].worker_id,
                                     local.pending[r].input,
                                     local.pending[r].append_newline)} :
           /\ local' = [local EXCEPT
                !.lock = 0, !.pending[r] = NoCommand,
                !.run[WriteTarget(r)].pipe =
                    IF out.result = Ok(TRUE) THEN @ + 1 ELSE @]
           /\ LockAnswer(r, out)

\* The worker reads an input from its stdin.
WorkerReads(r) ==
    /\ local.run[r].child = "running"
    /\ local.run[r].pipe > 0
    /\ local' = [local EXCEPT !.run[r].pipe = @ - 1]
    /\ UNCHANGED pc
    /\ LockQuiet(<<>>)

\* The worker exits: the read end of its stdin is closed.
WorkerExits(r) ==
    /\ local.run[r].child = "running"
    /\ local' = [local EXCEPT !.run[r].child = "exited"]
    /\ UNCHANGED pc
    /\ LockQuiet(<<>>)

NextLock ==
    \/ \E r \in Runs : StartStatement(r)
    \/ \E r \in Runs : StartLocked(r)
    \/ \E r \in Runs : IssueCommand(r)
    \/ \E r \in Runs : CommandLocks(r)
    \/ \E r \in Runs : CommandWrites(r)
    \/ \E r \in Runs : WorkerReads(r)
    \/ \E r \in Runs : WorkerExits(r)

\* Every thread that can run does run, and a thread that waits for the guard
\* gets it if the guard keeps being dropped.  Nothing makes a worker read its
\* stdin or exit, and nothing makes the UI invoke a command.
SpecLock ==
    /\ InitLock
    /\ [][NextLock]_vars
    /\ \A r \in Runs : /\ WF_vars(StartStatement(r))
                       /\ SF_vars(StartLocked(r))
                       /\ SF_vars(CommandLocks(r))
                       /\ WF_vars(CommandWrites(r))

\* The send of command r is blocked in write_all with the guard of the table
\* held.
BlockedWrite(r) ==
    /\ pc.cmd[r] = "write_all"
    /\ local.lock = r
    /\ local.run[WriteTarget(r)].child = "running"
    /\ local.run[WriteTarget(r)].pipe = PipeCapacity

\* C36: a send_worker_input that is blocked writing to the stdin of one worker
\* does not keep the session of another workerId from going on: a command
\* invoked for the other workerId returns, the other session is registered,
\* and its cleanup at exit removes the entry and emits the done event.
C36_BlockedWriteHoldsNoOtherSession ==
    \A r \in Runs : \A other \in Runs \ {r} :
        /\ (BlockedWrite(other) /\ pc.cmd[r] = "lock") ~> (pc.cmd[r] = "idle")
        /\ (BlockedWrite(other) /\ LockStatement(r) = "insert")
             ~> local.run[r].registered
        /\ (BlockedWrite(other) /\ LockStatement(r) = "remove")
             ~> (local.run[r].dones = 1)

\* The send for w1 is blocked in write_all on a full pipe with the guard
\* held, while a stop for w2 waits for the guard and the call of w2, whose
\* process has exited, stands before its remove.
C36_Witness ==
    /\ BlockedWrite(1)
    /\ pc.cmd[2] = "lock"
    /\ local.pending[2] = [op |-> "stop_worker_session", worker_id |-> "w2"]
    /\ LockStatement(2) = "remove"
    /\ local.run[2].child = "exited"
---------------------------------------------------------------------------
(* A session after stop_worker_session: what is left of its lifecycle. *)

\* The position of a statement in start_interactive_worker.
StatementIndex(statement) ==
    CHOOSE i \in 1..Len(start_interactive_worker) :
        start_interactive_worker[i] = statement

\* Call r has registered its session and has not reached its own remove,
\* and the table has no entry for its workerId, which no other call uses:
\* stop_worker_session has returned true for the workerId.
Stopped(r) ==
    /\ local.run[r].registered
    /\ pc[r] <= StatementIndex("remove")
    /\ local.run[r].worker_id \notin DOMAIN local.sessions
    /\ \A other \in Runs \ {r} : local.run[other].worker_id # local.run[r].worker_id

\* What a step does to a stopped session, the end of the call aside: the
\* readers are not ended by the stop (a reader that has finished has emitted
\* everything its stream held, and the process has exited), the remove of the
\* call leaves the table as it is, and a done event is the first one of the
\* session.
StoppedSessionGoesOn(r) ==
    /\ \A s \in Streams :
           local.run[r].reader[s] = "finished"
             => local.run[r].buffer[s] = 0 /\ local.run[r].child = "exited"
    /\ (Statement(r) = "remove" /\ pc'[r] = pc[r] + 1)
         => local'.sessions = local.sessions
    /\ local.run[r].dones = 0
    /\ local'.run[r].dones <= 1

\* With the end of the call left out, the lifecycle of a stopped session is
\* the one of C16 and C17.
StoppedLifecycleButTheEnd ==
    [][\A r \in Runs : Stopped(r) => StoppedSessionGoesOn(r)]_vars

\* C37: stop_worker_session does not end the lifecycle of the session: after
\* it returned true the readers go on until the streams are closed, the call
\* does not end before its remove, which then changes nothing in the table,
\* and the one done event of the session is emitted after it.
C37_StoppedSessionStillEndsWithDone ==
    [][\A r \in Runs :
         Stopped(r) => /\ StoppedSessionGoesOn(r)
                       /\ ~(pc'[r] = Len(start_interactive_worker) + 1)]_vars

\* The session of w1 was stopped while its process runs, and its stdout
\* reader has just emitted a log event.
C37_Witness ==
    /\ Stopped(1)
    /\ Statement(1) = "wait"
    /\ local.run[1].child = "running"
    /\ request = NoCommand
    /\ events = <<WorkerLogEvent("w1", "stdout", <<"chunk", 1>>)>>
---------------------------------------------------------------------------
(* Writes that fail: state.json and worker-signal.json in a directory that
   at times takes no write (no permission, no space).  `local.writable` says
   whether fs::write succeeds. *)

\* fs::write(path, contents): the file holds the contents when it succeeds
\* and is left as it was when the file cannot be created.
fs_write(writable, file, contents) == IF writable THEN contents ELSE file

\* write_state(): `let _ = fs::write(..)`, the outcome is not looked at.
write_state_on(writable, disk, ps) == fs_write(writable, disk, write_state(disk, ps))

InitWrites ==
    /\ projects = McpProjects
    /\ signal = None
    /\ events = <<>>
    /\ clock = 0
    /\ request = NoRequest
    /\ response = NoResponse
    /\ pc = <<>>
    /\ local = [writable |-> TRUE]

\* The directory stops or starts taking writes.
DirectoryChanges ==
    /\ local' = [writable |-> ~local.writable]
    /\ request' = NoRequest
    /\ response' = NoResponse
    /\ events' = <<>>
    /\ UNCHANGED <<projects, signal, clock, pc>>

\* POST /mcp tools/call: the handler writes with write_state and with
\* `let _ = fs::write(worker-signal.json, ..)`, emits with `let _ = emit(..)`
\* and answers, whatever the writes returned.
ToolsCallWriting ==
    \E params \in AllCallParams :
        /\ ("name" \in DOMAIN params /\ params.name = "submit_task_report")
              => TotalReports(projects) < MaxReports
        /\ \E out \in {handle_mcp_post(Body(Some(JsonNumber(1)), "tools/call", params),
                                       read_state(projects), clock, clock)} :
              /\ projects' = IF IsSome(out.effects.write)
                             THEN write_state_on(local.writable, projects,
                                                 Unwrap(out.effects.write))
                             ELSE projects
              /\ signal' = IF IsSome(out.effects.signal)
                           THEN fs_write(local.writable, signal, out.effects.signal)
                           ELSE signal
              /\ events' = out.effects.events
              /\ request' = Body(Some(JsonNumber(1)), "tools/call", params)
              /\ response' = [status |-> out.status, json |-> out.json]
        /\ UNCHANGED <<clock, pc, local>>

NextWrites == DirectoryChanges \/ ToolsCallWriting

SpecWrites == InitWrites /\ [][NextWrites]_vars

WritingTools == {"submit_task_report", "upsert_tag_definition", "finish_worker"}

\* C38: submit_task_report and upsert_tag_definition answer with success only
\* when the document they changed is in the file, and finish_worker only when
\* the signal file is written; a call whose write failed is answered with an
\* error and raises no event.
C38_SuccessMeansWritten ==
    [][(IsCall(request') /\ ToolName(request') \in WritingTools) =>
          \A out \in {handle_mcp_post(request', read_state(projects), clock, clock)} :
              /\ (Accepted(response') /\ IsSome(out.effects.write))
                   => projects' = Unwrap(out.effects.write)
              /\ (Accepted(response') /\ IsSome(out.effects.signal))
                   => signal' = out.effects.signal
              /\ (~local.writable
                    /\ (IsSome(out.effects.write) \/ IsSome(out.effects.signal)))
                   => Refused(response') /\ events' = <<>>]_vars

\* A report was answered with success and its events were raised while the
\* directory took no write: the document in the file is the one from before.
C38_Witness ==
    /\ ~local.writable
    /\ IsCall(request)
    /\ ToolName(request) = "submit_task_report"
    /\ Accepted(response)
    /\ events # <<>>
    /\ projects = McpProjects
---------------------------------------------------------------------------
(* What the calls leave of a file they cannot use. *)

\* C39: no tools/call writes state.json while the file is missing, unreadable
\* or unparseable: the handlers get the empty list, resolve no project and
\* return before write_state, so the file is as missing or as damaged after
\* the call as before, whatever sequence of calls is sent, and no event is
\* emitted for a change.
C39_UnusableFileIsNeverWritten ==
    [][(local \in {Missing, Unreadable, Unparseable}) =>
          /\ IsCall(request')
          /\ handle_mcp_post(request', read_state_file(local, projects),
                             clock, clock).effects.write = None
          /\ local' = local
          /\ projects' = projects
          /\ events' = <<>>
      ]_vars

\* A report for a task of the document was sent while the file was missing:
\* it was refused, and there still is no file.
C39_Witness ==
    /\ local = Missing
    /\ IsCall(request)
    /\ ToolName(request) = "submit_task_report"
    /\ StrArg(Arguments(request), "project") = <<"d","e","m","o">>
    /\ AtomArg(Arguments(request), "task_id") = "A"
    /\ find_project_index(projects, <<"d","e","m","o">>) # None
    /\ Refused(response)
---------------------------------------------------------------------------
(* The ids of the reports of a task. *)

\* C40: no two reports of a task have the same id, whatever successful
\* submit_task_report calls were made on the task, calls within one
\* millisecond of the clock included.
C40_ReportIdsUniqueInTask ==
    \A i \in 1..Len(projects) : \A j \in 1..Len(projects[i].tasks) :
        \A k, l \in 1..Len(projects[i].tasks[j].reports) :
            k # l => projects[i].tasks[j].reports[k].id
                       # projects[i].tasks[j].reports[l].id

\* Two reports with different contents were submitted for task A of Demo
\* within one millisecond: both have the id made of that millisecond.
C40_Witness ==
    /\ Len(projects[1].tasks[1].reports) = 2
    /\ projects[1].tasks[1].reports[1].content = "r1"
    /\ projects[1].tasks[1].reports[2].content = "r2"
    /\ projects[1].tasks[1].reports[1].id = projects[1].tasks[1].reports[2].id
    /\ Accepted(response)
====
